---- MODULE Spec2Model ----
(***************************************************************************)
(* State-machine model of the fastcp site registry                          *)
(* (internal/sites/manager.go, type Manager): the in-memory site map, the   *)
(* domain index, the per-user limits and the two JSON snapshots on disk.    *)
(* Every public method is one action: it runs under the manager's lock, so  *)
(* the whole method body, the trailing saveUnlocked included, is one step.  *)
(***************************************************************************)
EXTENDS Integers, Sequences, FiniteSets, TLC

\* ---------------------------------------------------------------- bounds
\* longest alias list a caller passes to Create / Update
MaxAliases == 1
\* largest MaxSites value a caller passes to SetUserLimit
MaxSitesLimit == 1
\* how many I/O failures (a failing MkdirAll, read or write) the
\* environment injects in one run of a specification that injects any
MaxIOFailures == 1

\* ------------------------------------------------------- value universes
Hostnames == {"a.test", "b.test", "c.test"}
\* the hostnames used where two sites and one collision are all it takes
FewHostnames == {"a.test", "b.test"}
SiteIDs == {"s1", "s2"}
\* versions listed in cfg.PHPVersions, and one that is not listed
TableVersions == {"8.3"}
AbsentVersion == "7.4"
\* site.UserID values the callers pass: config-based admin, or a Unix uid
UserIDs == {"", "admin", "1001"}
Usernames == {"alice"}

\* the Go nil slice of a patch (updates.Aliases == nil)
NilAliases == <<"<nil>">>

\* the Go nil map of a patch (updates.Environment == nil)
NilEnvironment == "<nil>"

AliasLists == UNION {[1..n -> Hostnames] : n \in 0..MaxAliases}
FewAliasLists == {<<>>} \cup {<<h>> : h \in FewHostnames}

\* ----------------------------------------------------------- the state
VARIABLES
    sites,        \* Manager.sites: site ID -> site record
    domains,      \* Manager.domains: hostname -> site ID
    userLimits,   \* Manager.userLimits: username -> limits record
    sitesFile,    \* <dataPath>/sites.json
    limitsFile,   \* <dataPath>/user_limits.json
    PHPVersions,  \* cfg.PHPVersions: version -> Enabled
    ioBudget,     \* I/O failures the environment may still inject
    ret,          \* what the last call returned and did outside the maps
    host,         \* the platform the limits manager runs on
    cgroups,      \* /sys/fs/cgroup/fastcp-<user>: username -> control files
    quotas,       \* the disk quota setquota recorded: username -> blocks
    removals,     \* RemoveLimits calls under way: username -> pids read
    lret,         \* what the last call of the limits manager returned
    unixUsers,    \* the accounts of the host: username -> account record
    resp,         \* the HTTP status the last user handler answered with
    mu,           \* Manager.mu: the holder of Lock and the holders of RLock
    pc,           \* where each concurrent caller of the registry stands
    writing,      \* the callers inside os.WriteFile of sites.json
    doc,          \* what the last call of the Caddyfile generator returned
    held          \* what callers keep of the results of their reads

\* the fields of sites.Manager, its files and its environment
registryVars == <<sites, domains, userLimits, sitesFile, limitsFile,
                  PHPVersions, ioBudget, ret>>

\* the host of limits.Manager and what it did there
enforcerVars == <<host, cgroups, quotas, removals, lret>>

\* the goroutines calling into the registry at once
callerVars == <<mu, pc, writing>>

\* what the user handlers of the API touch besides both managers
apiVars == <<unixUsers, resp>>

\* what the readers of the registry got from it
readerVars == <<doc, held>>

vars == <<sites, domains, userLimits, sitesFile, limitsFile, PHPVersions,
          ioBudget, ret, host, cgroups, quotas, removals, lret, unixUsers,
          resp, mu, pc, writing,
              doc, held>>

\* a file on disk: absent, unparseable (truncated), or a JSON array.  The
\* array is kept as the set of its records: it is written in the order of a
\* Go map iteration, which is unspecified, and Load meets it in some order.
NoFile == [state |-> "missing", data |-> {}]
CorruptFile == [state |-> "corrupt", data |-> {}]
JSONFile(records) == [state |-> "ok", data |-> records]

EmptyMap == [k \in {} |-> ""]

\* m[k] = v of a Go map
MapPut(m, k, v) == [x \in DOMAIN m \cup {k} |-> IF x = k THEN v ELSE m[x]]
\* delete(m, k) of a Go map
MapDelete(m, k) == [x \in DOMAIN m \ {k} |-> m[x]]

Range(s) == {s[i] : i \in DOMAIN s}

\* the values of a Go map
MapValues(m) == {m[k] : k \in DOMAIN m}

\* all orders in which the records of an array can stand
Orders(records) ==
    {s \in [1..Cardinality(records) -> records] :
        \A r \in records : \E i \in DOMAIN s : s[i] = r}

Ret(op, err, mkdirs) == [op |-> op, err |-> err, mkdirs |-> mkdirs]

\* ------------------------------------------------------- os/user lookup
\* getUsernameFromID: "" for the empty and the admin owner, else the Unix
\* username of the uid (or of the name), "" when neither lookup succeeds
getUsernameFromID(userID) ==
    IF userID = "" \/ userID = "admin" THEN ""
    ELSE IF userID = "1001" \/ userID = "alice" THEN "alice"
    ELSE ""

\* ------------------------------------------------------------ snapshots
\* saveUnlocked / Save: marshal all sites and rewrite sites.json.  MkdirAll
\* or opening the file can fail (file untouched); a failing write leaves a
\* truncated file behind.
SaveOutcomes(m, f, canFail) ==
    {[err |-> "nil", file |-> JSONFile(MapValues(m))]}
    \cup (IF canFail
          THEN {[err |-> "ErrIO", file |-> f],
                [err |-> "ErrIO", file |-> CorruptFile]}
          ELSE {})

saveUnlocked(m, f, canFail) == SaveOutcomes(m, f, canFail)

saveUserLimitsUnlocked(m, f, canFail) == SaveOutcomes(m, f, canFail)

\* the environment may still inject an I/O failure
CanFail == ioBudget > 0

\* the budget left after a call that returned err
Budget(err) ==
    IF err \in {"ErrIO", "ErrCreateDirs"} THEN ioBudget - 1 ELSE ioBudget

\* the loop of Load over the unmarshalled sites, first to last
RECURSIVE LoadSites(_, _, _)
RECURSIVE IndexAliases(_, _, _)
IndexAliases(d, aliases, id) ==
    IF aliases = <<>> THEN d
    ELSE IndexAliases(MapPut(d, Head(aliases), id), Tail(aliases), id)

LoadSites(s, d, arr) ==
    IF arr = <<>> THEN [sites |-> s, domains |-> d]
    ELSE LET site == Head(arr)
         IN  LoadSites(MapPut(s, site.ID, site),
                       IndexAliases(MapPut(d, site.Domain, site.ID),
                                    site.Aliases, site.ID),
                       Tail(arr))

RECURSIVE LoadLimits(_, _)
LoadLimits(l, arr) ==
    IF arr = <<>> THEN l
    ELSE LoadLimits(MapPut(l, Head(arr).Username, Head(arr)), Tail(arr))

\* ------------------------------------------------- outside the registry
\* what ApplyLimits, RemoveLimits and GetUsage look at before they act:
\* runtime.GOOS, <cgroupPath>/cgroup.controllers, setquota on the PATH; and
\* the width of Go's int in the build
Hosts ==
    [linux : BOOLEAN, cgroupV2 : BOOLEAN, setquota : BOOLEAN,
     intBits : {32, 64}]

\* a 64-bit Linux with the unified cgroup hierarchy and the quota tools
LinuxHost ==
    [linux |-> TRUE, cgroupV2 |-> TRUE, setquota |-> TRUE, intBits |-> 64]

\* a call of the limits manager: its argument, what it returned, the
\* control writes it issued and those of them that returned an error
LRet(op, arg, err, wrote, failed) ==
    [op |-> op, arg |-> arg, err |-> err, wrote |-> wrote, failed |-> failed]

\* limits.NewManager: nothing applied, nothing being removed
NoEnforcement ==
    /\ cgroups = EmptyMap
    /\ quotas = EmptyMap
    /\ removals = EmptyMap
    /\ lret = LRet("NewManager", "", "nil", <<>>, {})

\* a Unix account as useradd leaves it
NewAccount == [locked |-> FALSE, groups |-> {}]

\* the accounts of the host before the panel creates any: alice, uid 1001
HostAccounts == [u \in {"alice"} |-> NewAccount]

\* no user handler has answered yet
NoResponse == [handler |-> "", status |-> 0]

\* the goroutines that call into one sites.Manager at once
Callers == {"g1", "g2", "g3"}

\* sync.RWMutex: unlocked
Unlocked == [writer |-> "", readers |-> {}]

\* one call of a method of the registry: the method and its arguments, the
\* ones it does not take left blank
NoSite ==
    [ID |-> "", Domain |-> "", Aliases |-> <<>>, PHPVersion |-> "",
     Status |-> "", UserID |-> "", Name |-> "", PublicPath |-> "",
     WorkerMode |-> FALSE, WorkerFile |-> "", WorkerNum |-> 0,
     Environment |-> NilEnvironment]

NoUpdates ==
    [Domain |-> "", Aliases |-> NilAliases, PHPVersion |-> "",
     Status |-> "", Name |-> "", PublicPath |-> "", WorkerMode |-> FALSE,
     WorkerFile |-> "", WorkerNum |-> 0, Environment |-> NilEnvironment]

NoCall == [op |-> "", id |-> "", site |-> NoSite, updates |-> NoUpdates]

\* a caller that is in no call; during a call: where it stands in the
\* method, what it will return, and the callers whose calls ran while
\* its own did
Idle == [at |-> "idle", call |-> NoCall, err |-> "nil", during |-> {}]

\* GenerateMainProxy / GeneratePHPInstance not called yet
NoDocument == [op |-> "", version |-> "", port |-> 0, err |-> "nil",
               sites |-> <<>>, text |-> <<>>]

\* nothing rendered, no result of a read kept
NoReaders ==
    /\ doc = NoDocument
    /\ held = {}

NoCallers ==
    /\ mu = Unlocked
    /\ pc = [c \in Callers |-> Idle]
    /\ writing = {}

\* one caller at a time on a host that supports every limit, no user
\* handler served yet
RegistryAlone ==
    /\ host = LinuxHost
    /\ NoEnforcement
    /\ unixUsers = HostAccounts
    /\ resp = NoResponse
    /\ NoCallers
    /\ NoReaders

\* what a call of sites.Manager taken as one step leaves alone
outsideRegistry == <<host, cgroups, quotas, removals, lret, unixUsers,
                     resp, mu, pc, writing,
                         doc, held>>

\* ---------------------------------------------------------------- Init
\* NewManager on an empty data directory
Init ==
    /\ sites = EmptyMap
    /\ domains = EmptyMap
    /\ userLimits = EmptyMap
    /\ sitesFile = NoFile
    /\ limitsFile = NoFile
    /\ PHPVersions = [v \in TableVersions |-> TRUE]
    /\ ioBudget = 0
    /\ ret = Ret("NewManager", "nil", FALSE)
    /\ RegistryAlone

\* the same, in an environment whose I/O can fail
InitIO ==
    /\ sites = EmptyMap
    /\ domains = EmptyMap
    /\ userLimits = EmptyMap
    /\ sitesFile = NoFile
    /\ limitsFile = NoFile
    /\ PHPVersions = [v \in TableVersions |-> TRUE]
    /\ ioBudget = MaxIOFailures
    /\ ret = Ret("NewManager", "nil", FALSE)
    /\ RegistryAlone

\* a version check that forgets pv.Enabled: it accepts every listed instance
validPHP_IgnoresEnabled(table, version) == version \in DOMAIN table

\* --------------------------------------------------------------- Create
\* the loop over cfg.PHPVersions: the version is listed and Enabled
validPHP(table, version) == version \in DOMAIN table /\ table[version]

\* countUserSitesUnlocked
countUserSitesUnlocked(s, userID) ==
    Cardinality({id \in DOMAIN s : s[id].UserID = userID})

\* Create, "Check if domain already exists": the sentinel for the Domain,
\* an fmt.Errorf value for the first alias found in the index
CreateConflict(d, site) ==
    IF site.Domain \in DOMAIN d THEN "ErrDomainExists"
    ELSE IF \E i \in DOMAIN site.Aliases : site.Aliases[i] \in DOMAIN d
         THEN "ErrAliasExists"
         ELSE "nil"

\* a limit check that is off by one: it lets the owner reach MaxSites + 1
SiteLimitReached_OffByOne(s, l, site) ==
    /\ site.UserID # "" /\ site.UserID # "admin"
    /\ LET username == getUsernameFromID(site.UserID)
       IN  /\ username \in DOMAIN l
           /\ l[username].MaxSites > 0
           /\ countUserSitesUnlocked(s, site.UserID) > l[username].MaxSites

\* Create, "Check site limit for user"
SiteLimitReached(s, l, site) ==
    /\ site.UserID # "" /\ site.UserID # "admin"
    /\ LET username == getUsernameFromID(site.UserID)
       IN  /\ username \in DOMAIN l
           /\ l[username].MaxSites > 0
           /\ countUserSitesUnlocked(s, site.UserID) >= l[username].MaxSites

\* the checks of Create in the order the code makes them; "nil" when the
\* site passes all of them
CreateCheck(s, d, l, table, site) ==
    IF CreateConflict(d, site) # "nil" THEN CreateConflict(d, site)
    ELSE IF SiteLimitReached(s, l, site) THEN "ErrSiteLimitReached"
    ELSE IF ~validPHP(table, site.PHPVersion) THEN "ErrInvalidPHPVersion"
    ELSE "nil"

\* uuid.New(): an ID no stored site has.  IDs are only ever compared, so
\* which unused one it is makes no difference and the model takes one.
NewUUID(s) == CHOOSE id \in SiteIDs \ DOMAIN s : TRUE

\* Create, "Set defaults": the ID is a fresh uuid when the caller gave none
CreateDefaults(site, id) ==
    [site EXCEPT !.ID = id,
                 !.Status = IF site.Status = "" THEN "active" ELSE site.Status,
                 !.PublicPath = IF site.PublicPath = "" THEN "public"
                                ELSE site.PublicPath]

\* an insert that indexes the Domain and forgets the aliases
CreateInsert_DomainOnly(s, d, site) ==
    [sites |-> MapPut(s, site.ID, site),
     domains |-> MapPut(d, site.Domain, site.ID)]

\* Create, "Add to maps"
CreateInsert(s, d, site) ==
    [sites |-> MapPut(s, site.ID, site),
     domains |-> IndexAliases(MapPut(d, site.Domain, site.ID),
                              site.Aliases, site.ID)]

Create(site) ==
    /\ LET e == CreateCheck(sites, domains, userLimits, PHPVersions, site)
       IN  IF e # "nil"
           THEN /\ ret' = Ret("Create", e, FALSE)
                /\ UNCHANGED <<sites, domains, userLimits, sitesFile,
                               limitsFile, PHPVersions>>
           ELSE \E id \in (IF site.ID # "" THEN {site.ID}
                           ELSE IF SiteIDs \subseteq DOMAIN sites THEN {}
                           ELSE {NewUUID(sites)}) :
                \/ \* createSiteDirectories fails part of the way
                   /\ CanFail
                   /\ \E made \in BOOLEAN :
                          ret' = Ret("Create", "ErrCreateDirs", made)
                   /\ UNCHANGED <<sites, domains, userLimits, sitesFile,
                                  limitsFile, PHPVersions>>
                \/ LET m == CreateInsert(sites, domains,
                                         CreateDefaults(site, id))
                   IN  /\ sites' = m.sites
                       /\ domains' = m.domains
                       /\ \E o \in saveUnlocked(m.sites, sitesFile, CanFail) :
                              /\ sitesFile' = o.file
                              /\ ret' = Ret("Create", o.err, TRUE)
                       /\ UNCHANGED <<userLimits, limitsFile, PHPVersions>>
    /\ ioBudget' = Budget(ret'.err)

\* --------------------------------------------------------------- Update
\* Update moves through its steps on the stored site (a pointer) and on
\* the index; st carries the maps as mutated so far and the error, if any,
\* with which the method has already returned.
Step(err, s, d) == [err |-> err, sites |-> s, domains |-> d]

\* Update, "Check if new domain conflicts with existing"
UpdateDomain(st, id, updates) ==
    LET site == st.sites[id]
    IN  IF updates.Domain # "" /\ updates.Domain # site.Domain
        THEN IF updates.Domain \in DOMAIN st.domains
             THEN Step("ErrDomainExists", st.sites, st.domains)
             ELSE Step("nil",
                       MapPut(st.sites, id,
                              [site EXCEPT !.Domain = updates.Domain]),
                       MapPut(MapDelete(st.domains, site.Domain),
                              updates.Domain, id))
        ELSE st

\* Update, "Update fields": the Name field, set before the version is checked
UpdateName(st, id, updates) ==
    IF st.err # "nil" \/ updates.Name = "" THEN st
    ELSE Step("nil",
              MapPut(st.sites, id, [st.sites[id] EXCEPT !.Name = updates.Name]),
              st.domains)

\* Update, the PHPVersion field
UpdatePHPVersion(st, table, id, updates) ==
    IF st.err # "nil" \/ updates.PHPVersion = "" THEN st
    ELSE IF ~validPHP(table, updates.PHPVersion)
         THEN Step("ErrInvalidPHPVersion", st.sites, st.domains)
         ELSE Step("nil",
                   MapPut(st.sites, id,
                          [st.sites[id] EXCEPT
                               !.PHPVersion = updates.PHPVersion]),
                   st.domains)

\* Update, "Remove old alias mappings"
RECURSIVE RemoveAliases(_, _)
RemoveAliases(d, aliases) ==
    IF aliases = <<>> THEN d
    ELSE RemoveAliases(MapDelete(d, Head(aliases)), Tail(aliases))

\* Update, "Add new alias mappings": stops at the first alias that another
\* site holds in the index, keeping the mappings added before it
RECURSIVE AddAliases(_, _, _)
AddAliases(d, aliases, id) ==
    IF aliases = <<>> THEN [err |-> "nil", domains |-> d]
    ELSE IF Head(aliases) \in DOMAIN d /\ d[Head(aliases)] # id
         THEN [err |-> "ErrAliasExists", domains |-> d]
         ELSE AddAliases(MapPut(d, Head(aliases), id), Tail(aliases), id)

\* Update, the Aliases field
UpdateAliases(st, id, updates) ==
    IF st.err # "nil" \/ updates.Aliases = NilAliases THEN st
    ELSE LET site == st.sites[id]
             a == AddAliases(RemoveAliases(st.domains, site.Aliases),
                             updates.Aliases, id)
         IN  IF a.err # "nil"
             THEN Step(a.err, st.sites, a.domains)
             ELSE Step("nil",
                       MapPut(st.sites, id,
                              [site EXCEPT !.Aliases = updates.Aliases]),
                       a.domains)

\* Update, the Status field
UpdateStatus(st, id, updates) ==
    IF st.err # "nil" \/ updates.Status = "" THEN st
    ELSE Step("nil",
              MapPut(st.sites, id,
                     [st.sites[id] EXCEPT !.Status = updates.Status]),
              st.domains)

\* a PublicPath step that assigns the patch's value even when it is empty
UpdatePublicPath_Overwrites(st, id, updates) ==
    IF st.err # "nil" THEN st
    ELSE Step("nil",
              MapPut(st.sites, id,
                     [st.sites[id] EXCEPT !.PublicPath = updates.PublicPath]),
              st.domains)

\* Update, the PublicPath field
UpdatePublicPath(st, id, updates) ==
    IF st.err # "nil" \/ updates.PublicPath = "" THEN st
    ELSE Step("nil",
              MapPut(st.sites, id,
                     [st.sites[id] EXCEPT !.PublicPath = updates.PublicPath]),
              st.domains)

\* Update, "Worker mode settings": WorkerMode is assigned whatever it is,
\* WorkerFile when it is not empty, WorkerNum when it is positive
UpdateWorker(st, id, updates) ==
    IF st.err # "nil" THEN st
    ELSE LET site == st.sites[id]
         IN  Step("nil",
                  MapPut(st.sites, id,
                         [site EXCEPT
                              !.WorkerMode = updates.WorkerMode,
                              !.WorkerFile = IF updates.WorkerFile # ""
                                             THEN updates.WorkerFile
                                             ELSE site.WorkerFile,
                              !.WorkerNum = IF updates.WorkerNum > 0
                                            THEN updates.WorkerNum
                                            ELSE site.WorkerNum]),
                  st.domains)

\* Update, the Environment field
UpdateEnvironment(st, id, updates) ==
    IF st.err # "nil" \/ updates.Environment = NilEnvironment THEN st
    ELSE Step("nil",
              MapPut(st.sites, id,
                     [st.sites[id] EXCEPT
                          !.Environment = updates.Environment]),
              st.domains)

\* the body of Update between the lookup of id and saveUnlocked, in the
\* order of the code: Domain, Name, PHPVersion, Aliases, PublicPath,
\* Status, the worker settings, Environment
UpdateFields(s, d, table, id, updates) ==
    UpdateEnvironment(
      UpdateWorker(
        UpdateStatus(
          UpdatePublicPath(
            UpdateAliases(
              UpdatePHPVersion(
                UpdateName(
                  UpdateDomain(Step("nil", s, d), id, updates),
                  id, updates),
                table, id, updates),
              id, updates),
            id, updates),
          id, updates),
        id, updates),
      id, updates)

Update(id, updates) ==
    /\ IF id \notin DOMAIN sites
       THEN /\ ret' = Ret("Update", "ErrSiteNotFound", FALSE)
            /\ UNCHANGED <<sites, domains, userLimits, sitesFile, limitsFile,
                           PHPVersions>>
       ELSE LET st == UpdateFields(sites, domains, PHPVersions, id, updates)
            IN  /\ sites' = st.sites
                /\ domains' = st.domains
                /\ IF st.err # "nil"
                   THEN /\ ret' = Ret("Update", st.err, FALSE)
                        /\ UNCHANGED sitesFile
                   ELSE \E o \in saveUnlocked(st.sites, sitesFile, CanFail) :
                            /\ sitesFile' = o.file
                            /\ ret' = Ret("Update", o.err, FALSE)
                /\ UNCHANGED <<userLimits, limitsFile, PHPVersions>>
    /\ ioBudget' = Budget(ret'.err)

\* --------------------------------------------- Delete, Suspend, Unsuspend
\* a removal that drops the Domain mapping and leaves the alias mappings
DeleteEntry_KeepsAliases(s, d, id) ==
    [sites |-> MapDelete(s, id),
     domains |-> MapDelete(d, s[id].Domain)]

\* Delete, "Remove domain mappings" and "Remove site"
DeleteEntry(s, d, id) ==
    [sites |-> MapDelete(s, id),
     domains |-> RemoveAliases(MapDelete(d, s[id].Domain), s[id].Aliases)]

Delete(id) ==
    /\ IF id \notin DOMAIN sites
       THEN /\ ret' = Ret("Delete", "ErrSiteNotFound", FALSE)
            /\ UNCHANGED <<sites, domains, userLimits, sitesFile, limitsFile,
                           PHPVersions>>
       ELSE LET m == DeleteEntry(sites, domains, id)
            IN  /\ sites' = m.sites
                /\ domains' = m.domains
                /\ \E o \in saveUnlocked(m.sites, sitesFile, CanFail) :
                       /\ sitesFile' = o.file
                       /\ ret' = Ret("Delete", o.err, FALSE)
                /\ UNCHANGED <<userLimits, limitsFile, PHPVersions>>
    /\ ioBudget' = Budget(ret'.err)

\* a status change that also switches the site's worker mode off
SetStatus_ResetsWorker(op, id, status) ==
    /\ IF id \notin DOMAIN sites
       THEN /\ ret' = Ret(op, "ErrSiteNotFound", FALSE)
            /\ UNCHANGED <<sites, domains, userLimits, sitesFile, limitsFile,
                           PHPVersions>>
       ELSE /\ sites' = MapPut(sites, id, [sites[id] EXCEPT
                                               !.Status = status,
                                               !.WorkerMode = FALSE])
            /\ \E o \in saveUnlocked(sites', sitesFile, CanFail) :
                   /\ sitesFile' = o.file
                   /\ ret' = Ret(op, o.err, FALSE)
            /\ UNCHANGED <<domains, userLimits, limitsFile, PHPVersions>>
    /\ ioBudget' = Budget(ret'.err)

\* the body shared by Suspend and Unsuspend: set Status, then saveUnlocked
SetStatus(op, id, status) ==
    /\ IF id \notin DOMAIN sites
       THEN /\ ret' = Ret(op, "ErrSiteNotFound", FALSE)
            /\ UNCHANGED <<sites, domains, userLimits, sitesFile, limitsFile,
                           PHPVersions>>
       ELSE /\ sites' = MapPut(sites, id, [sites[id] EXCEPT !.Status = status])
            /\ \E o \in saveUnlocked(sites', sitesFile, CanFail) :
                   /\ sitesFile' = o.file
                   /\ ret' = Ret(op, o.err, FALSE)
            /\ UNCHANGED <<domains, userLimits, limitsFile, PHPVersions>>
    /\ ioBudget' = Budget(ret'.err)

Suspend(id) == SetStatus("Suspend", id, "suspended")

Unsuspend(id) == SetStatus("Unsuspend", id, "active")

\* ------------------------------------------------- NewManager, Load, Save
\* NewManager: a registry with empty maps on the same data path
NewManager ==
    /\ sites' = EmptyMap
    /\ domains' = EmptyMap
    /\ userLimits' = EmptyMap
    /\ ret' = Ret("NewManager", "nil", FALSE)
    /\ UNCHANGED <<sitesFile, limitsFile, PHPVersions, ioBudget>>

\* a Load that takes a missing sites.json for a read failure
LoadSitesFile_MissingIsError(s, d, f, arr, readOK) ==
    IF f.state = "missing" \/ ~readOK THEN Step("ErrIO", s, d)
    ELSE IF f.state = "corrupt" THEN Step("ErrJSON", s, d)
    ELSE LET m == LoadSites(s, d, arr)
         IN  Step("nil", m.sites, m.domains)

\* Load, "Load sites": what the method returns and the maps it leaves;
\* readOK = FALSE is a read error other than "does not exist"
LoadSitesFile(s, d, f, arr, readOK) ==
    IF f.state = "missing" THEN Step("nil", s, d)
    ELSE IF ~readOK THEN Step("ErrIO", s, d)
    ELSE IF f.state = "corrupt" THEN Step("ErrJSON", s, d)
    ELSE LET m == LoadSites(s, d, arr)
         IN  Step("nil", m.sites, m.domains)

\* Load, "Load user limits": any failure is ignored
LoadLimitsFile(l, f, arr, readOK) ==
    IF f.state = "ok" /\ readOK THEN LoadLimits(l, arr) ELSE l

Load ==
    \E readSites \in (IF CanFail THEN BOOLEAN ELSE {TRUE}),
       readLimits \in BOOLEAN,
       sitesArr \in Orders(sitesFile.data),
       limitsArr \in Orders(limitsFile.data) :
        LET st == LoadSitesFile(sites, domains, sitesFile, sitesArr,
                                readSites)
        IN  /\ sites' = st.sites
            /\ domains' = st.domains
            /\ userLimits' = IF st.err = "nil"
                             THEN LoadLimitsFile(userLimits, limitsFile,
                                                 limitsArr, readLimits)
                             ELSE userLimits
            /\ ret' = Ret("Load", st.err, FALSE)
            /\ ioBudget' = Budget(st.err)
            /\ UNCHANGED <<sitesFile, limitsFile, PHPVersions>>

\* Save: the rewrite of sites.json alone
Save ==
    /\ \E o \in SaveOutcomes(sites, sitesFile, CanFail) :
           /\ sitesFile' = o.file
           /\ ret' = Ret("Save", o.err, FALSE)
           /\ ioBudget' = Budget(o.err)
    /\ UNCHANGED <<sites, domains, userLimits, limitsFile, PHPVersions>>

\* -------------------------------------------------------------- lookups
\* the nil *models.Site
NilSite == [ID |-> "<nil>"]

\* Get: what it returns from the site map s
Get(s, id) ==
    IF id \in DOMAIN s THEN [err |-> "nil", site |-> s[id]]
    ELSE [err |-> "ErrSiteNotFound", site |-> NilSite]

\* GetByDomain: the index lookup, then m.sites[id] with no second check
GetByDomain(s, d, domain) ==
    IF domain \notin DOMAIN d
    THEN [err |-> "ErrSiteNotFound", site |-> NilSite]
    ELSE [err |-> "nil",
          site |-> IF d[domain] \in DOMAIN s THEN s[d[domain]] ELSE NilSite]

\* List: pointers to the stored sites of the owner (all when userID is
\* empty), in the order of a Go map iteration; the model keeps the IDs
List(s, userID) ==
    Orders({id \in DOMAIN s : userID = "" \/ s[id].UserID = userID})

\* GetAll: copies of the stored sites, in the order of a Go map iteration
GetAll(s) == Orders(MapValues(s))

\* a count that takes every stored site, whatever its Status
CountByPHPVersion_CountsAll(s) ==
    [v \in {s[id].PHPVersion : id \in DOMAIN s} |->
        Cardinality({id \in DOMAIN s : s[id].PHPVersion = v})]

\* CountByPHPVersion: the versions of the sites whose Status is "active",
\* each with the number of those sites
CountByPHPVersion(s) ==
    LET active == {id \in DOMAIN s : s[id].Status = "active"}
    IN  [v \in {s[id].PHPVersion : id \in active} |->
            Cardinality({id \in active : s[id].PHPVersion = v})]

\* statistics that report every stored site as active
GetStats_AllActive(s) ==
    [total |-> Cardinality(DOMAIN s), active |-> Cardinality(DOMAIN s)]

\* GetStats
GetStats(s) ==
    [total |-> Cardinality(DOMAIN s),
     active |-> Cardinality({id \in DOMAIN s : s[id].Status = "active"})]

\* ---------------------------------------------------------- user limits
\* GetUserLimit: the stored record, or a fresh one with MaxSites 0
GetUserLimit(l, username) ==
    IF username \in DOMAIN l THEN l[username]
    ELSE [Username |-> username, MaxSites |-> 0]

\* an insert that keeps the record an owner already has
SetUserLimit_KeepsFirst(limit) ==
    /\ userLimits' = IF limit.Username \in DOMAIN userLimits THEN userLimits
                     ELSE MapPut(userLimits, limit.Username, limit)
    /\ \E o \in saveUserLimitsUnlocked(userLimits', limitsFile, CanFail) :
           /\ limitsFile' = o.file
           /\ ret' = Ret("SetUserLimit", o.err, FALSE)
           /\ ioBudget' = Budget(o.err)
    /\ UNCHANGED <<sites, domains, sitesFile, PHPVersions>>

\* a SetUserLimit that rewrites sites.json along with user_limits.json
SetUserLimit_AlsoSavesSites(limit) ==
    /\ userLimits' = MapPut(userLimits, limit.Username, limit)
    /\ \E o \in saveUserLimitsUnlocked(userLimits', limitsFile, CanFail) :
           /\ limitsFile' = o.file
           /\ ret' = Ret("SetUserLimit", o.err, FALSE)
           /\ ioBudget' = Budget(o.err)
    /\ sitesFile' = JSONFile(MapValues(sites))
    /\ UNCHANGED <<sites, domains, PHPVersions>>

SetUserLimit(limit) ==
    /\ userLimits' = MapPut(userLimits, limit.Username, limit)
    /\ \E o \in saveUserLimitsUnlocked(userLimits', limitsFile, CanFail) :
           /\ limitsFile' = o.file
           /\ ret' = Ret("SetUserLimit", o.err, FALSE)
           /\ ioBudget' = Budget(o.err)
    /\ UNCHANGED <<sites, domains, sitesFile, PHPVersions>>

\* ------------------------------------------------------- the environment
\* the runtime-instance manager enables or disables a listed version
SetPHPEnabled(version, enabled) ==
    /\ PHPVersions' = [PHPVersions EXCEPT ![version] = enabled]
    /\ ret' = Ret("SetPHPEnabled", "nil", FALSE)
    /\ UNCHANGED <<sites, domains, userLimits, sitesFile, limitsFile,
                   ioBudget>>

\* ------------------------------------------------------- limits.Manager
\* the steps of a call that the environment lets fail together, at most
MaxFailedSteps == 1

\* Go's int32: the sum of two values, wrapped
MaxInt32 == 2147483647
MinInt32 == -MaxInt32 - 1

Add32(x, y) ==
    IF x > 0 /\ y > 0 /\ x > MaxInt32 - y
    THEN (x - MaxInt32 - 1) + (y - MaxInt32 - 1)
    ELSE IF x < 0 /\ y < 0 /\ x < MinInt32 - y
    THEN (x + MaxInt32 + 1) + (y + MaxInt32 + 1)
    ELSE x + y

\* Go's int32: the product a * b for b >= 0, wrapped (by doubling)
RECURSIVE Mul32(_, _)
Mul32(a, b) ==
    IF b = 0 THEN 0
    ELSE LET rest == Mul32(Add32(a, a), b \div 2)
         IN  IF b % 2 = 1 THEN Add32(a, rest) ELSE rest

\* Go's x / c for c > 0: the quotient truncated toward zero
Quot(x, c) ==
    IF x >= 0 THEN x \div c
    ELSE IF x + c > 0 THEN 0
    ELSE -((-(x + c)) \div c) - 1

\* (a * b) / c as Go computes it in an int of the given width, for a >= 0.  In
\* 64 bits the product of the values used here does not wrap (that takes a
\* beyond 2^63 / b), so the quotient is the exact one; it is computed in two
\* parts because the product itself can exceed the integers of TLC.
IntMulDiv(bits, a, b, c) ==
    IF bits = 32 THEN Quot(Mul32(a, b), c)
    ELSE (a \div c) * b + ((a % c) * b) \div c

\* period := 100000
Period == 100000

\* a quota computed against a period of one millisecond
cpuMax_MillisecondPeriod(bits, percent) ==
    <<IntMulDiv(bits, percent, 1000, 100), Period>>

\* the values of MaxCPUPercent callers pass: unlimited, half a core, and
\* one whose product with the period exceeds 32 bits
CPUPercents == {0, 50, 43000}

\* quota := (limits.MaxCPUPercent * period) / 100, tabulated over the widths
\* of int and the percentages above
Quotas ==
    [bits \in {32, 64}, percent \in CPUPercents |->
        IntMulDiv(bits, percent, Period, 100)]

\* cpu.max: the quota, then the period
cpuMax(bits, percent) == <<Quotas[bits, percent], Period>>

\* the content "max" of a control file; a ceiling is the tuple of the
\* numbers written
NoCeiling == <<>>

\* a cgroup directory as os.MkdirAll leaves it: no ceiling, no member
NewCgroup ==
    [memory |-> NoCeiling, cpu |-> NoCeiling, pids |-> NoCeiling,
     procs |-> {}]

\* a write of a control file
ControlWrite(file, data) == [file |-> file, data |-> data]

\* the control writes that treat a limit of 0 as a ceiling of its own
CgroupWrites_ZeroIsALimit(bits, limits) ==
    (IF limits.MaxRAMMB >= 0
     THEN <<ControlWrite("memory", <<limits.MaxRAMMB * 1024 * 1024>>)>>
     ELSE <<>>)
    \o (IF limits.MaxCPUPercent > 0
        THEN <<ControlWrite("cpu", cpuMax(bits, limits.MaxCPUPercent))>>
        ELSE <<>>)
    \o (IF limits.MaxProcesses > 0
        THEN <<ControlWrite("pids", <<limits.MaxProcesses>>)>>
        ELSE <<>>)

\* the control writes applyCgroupLimits issues for the limits, in its order:
\* memory.max, cpu.max, pids.max, each only for a limit above 0
CgroupWrites(bits, limits) ==
    (IF limits.MaxRAMMB > 0
     THEN <<ControlWrite("memory", <<limits.MaxRAMMB * 1024 * 1024>>)>>
     ELSE <<>>)
    \o (IF limits.MaxCPUPercent > 0
        THEN <<ControlWrite("cpu", cpuMax(bits, limits.MaxCPUPercent))>>
        ELSE <<>>)
    \o (IF limits.MaxProcesses > 0
        THEN <<ControlWrite("pids", <<limits.MaxProcesses>>)>>
        ELSE <<>>)

\* the kernel refuses a cpu.max whose quota is below one millisecond
KernelAccepts(write) == write.file = "cpu" => write.data[1] >= 1000

\* what a run of writes left: the group, the writes issued, those that failed
Written(group, wrote, failed) ==
    [group |-> group, wrote |-> wrote, failed |-> failed]

\* writes that stop at the first one that fails
RECURSIVE WriteControls_StopsAtFailure(_, _, _)
WriteControls_StopsAtFailure(group, writes, fail) ==
    IF writes = <<>> THEN Written(group, <<>>, {})
    ELSE LET w == Head(writes)
             ok == w.file \notin fail /\ KernelAccepts(w)
         IN  IF ~ok THEN Written(group, <<w>>, {w.file})
             ELSE LET rest == WriteControls_StopsAtFailure(
                                  [group EXCEPT ![w.file] = w.data],
                                  Tail(writes), fail)
                  IN  Written(rest.group, <<w>> \o rest.wrote, rest.failed)

\* the os.WriteFile calls of applyCgroupLimits, one after the other: a
\* failure is logged and the next write is issued all the same
RECURSIVE WriteControls(_, _, _)
WriteControls(group, writes, fail) ==
    IF writes = <<>> THEN Written(group, <<>>, {})
    ELSE LET w == Head(writes)
             ok == w.file \notin fail /\ KernelAccepts(w)
             rest == WriteControls(
                         IF ok THEN [group EXCEPT ![w.file] = w.data]
                         ELSE group,
                         Tail(writes), fail)
         IN  Written(rest.group, <<w>> \o rest.wrote,
                     rest.failed \cup (IF ok THEN {} ELSE {w.file}))

\* what a part of ApplyLimits returned and left on the host, the writes it
\* issued and the steps of it that failed
Applied(err, state, wrote, failed) ==
    [err |-> err, state |-> state, wrote |-> wrote, failed |-> failed]

\* an applyCgroupLimits that does not look for cgroup.controllers
applyCgroupLimits_NoV2Check(h, cg, limits, fail) ==
    LET u == limits.Username
        made == IF u \in DOMAIN cg THEN cg ELSE MapPut(cg, u, NewCgroup)
        r == WriteControls(made[u], CgroupWrites(h.intBits, limits), fail)
    IN  Applied("nil", [made EXCEPT ![u] = r.group], r.wrote, r.failed)

\* applyCgroupLimits: nothing without cgroup v2; else create the directory
\* (the only error it returns), enable the controllers, write the controls
applyCgroupLimits(h, cg, limits, fail) ==
    LET u == limits.Username
        made == IF u \in DOMAIN cg THEN cg ELSE MapPut(cg, u, NewCgroup)
        subtree == ControlWrite("subtree_control", "+cpu +memory +pids")
        r == WriteControls(made[u], CgroupWrites(h.intBits, limits), fail)
    IN  IF ~h.cgroupV2 THEN Applied("nil", cg, <<>>, {})
        ELSE IF u \notin DOMAIN cg /\ "mkdir" \in fail
        THEN Applied("ErrCreateCgroup", cg, <<>>, {"mkdir"})
        ELSE Applied("nil", [made EXCEPT ![u] = r.group],
                     <<subtree>> \o r.wrote,
                     r.failed \cup ({"subtree_control"} \cap fail))

\* the arguments of setquota: soft and hard block limit in KB, inode limits
QuotaOf(limits) ==
    [soft |-> limits.MaxDiskMB * 1024, hard |-> limits.MaxDiskMB * 1024,
     softInodes |-> 100000, hardInodes |-> 150000]

\* applyDiskQuota: nothing for MaxDiskMB 0 or without setquota; an unknown
\* user is the only error it returns; a failing df or setquota is logged
applyDiskQuota(h, q, accounts, limits, fail) ==
    LET u == limits.Username
        w == ControlWrite("quota", QuotaOf(limits))
    IN  IF limits.MaxDiskMB = 0 THEN Applied("nil", q, <<>>, {})
        ELSE IF ~h.setquota THEN Applied("nil", q, <<>>, {})
        ELSE IF u \notin DOMAIN accounts
        THEN Applied("ErrUserNotFound", q, <<>>, {"lookup"})
        ELSE IF "df" \in fail THEN Applied("nil", q, <<>>, {"df"})
        ELSE IF "quota" \in fail THEN Applied("nil", q, <<w>>, {"quota"})
        ELSE Applied("nil", MapPut(q, u, w.data), <<w>>, {})

\* ApplyLimits as a function of the host: what it returns and leaves
ApplyLimitsOn(h, cg, q, accounts, limits, fail) ==
    LET c == applyCgroupLimits(h, cg, limits, fail)
        d == applyDiskQuota(h, q, accounts, limits, fail)
        errors == (IF c.err # "nil" THEN <<c.err>> ELSE <<>>)
                  \o (IF d.err # "nil" THEN <<d.err>> ELSE <<>>)
    IN  IF ~h.linux
        THEN [cgroups |-> cg, quotas |-> q,
              lret |-> LRet("ApplyLimits", limits, "nil", <<>>, {})]
        ELSE [cgroups |-> c.state, quotas |-> d.state,
              lret |-> LRet("ApplyLimits", limits,
                            IF errors # <<>> THEN "ErrApplySomeLimits"
                            ELSE "nil",
                            c.wrote \o d.wrote, c.failed \cup d.failed)]

\* ApplyLimits with the accounts the host has at the time of the call
ApplyLimitsWith(accounts, limits, fail) ==
    LET a == ApplyLimitsOn(host, cgroups, quotas, accounts, limits, fail)
    IN  /\ cgroups' = a.cgroups
        /\ quotas' = a.quotas
        /\ lret' = a.lret
        /\ UNCHANGED <<host, removals>>

ApplyLimits(limits, fail) == ApplyLimitsWith(unixUsers, limits, fail)

\* GetUsage: the counters of the group as far as they can be read; never an
\* error.  bytes is what memory.current holds at the time.
GetUsage(username, bytes) ==
    /\ lret' = [op |-> "GetUsage", arg |-> username, err |-> "nil",
                wrote |-> <<>>, failed |-> {},
                usage |-> IF host.linux /\ username \in DOMAIN cgroups
                          THEN [Username |-> username,
                                RAMUsedMB |-> bytes \div (1024 * 1024),
                                ProcessCount |->
                                    Cardinality(cgroups[username].procs)]
                          ELSE [Username |-> username, RAMUsedMB |-> 0,
                                ProcessCount |-> 0]]
    /\ UNCHANGED <<host, cgroups, quotas, removals>>

\* the kernel moves pid into the group of username: a process is a member
\* of one group only
Attach(cg, username, pid) ==
    [u \in DOMAIN cg |->
        [cg[u] EXCEPT !.procs = IF u = username THEN @ \cup {pid}
                                ELSE @ \ {pid}]]

\* the kernel moves pid to the root group
Detach(cg, pid) == [u \in DOMAIN cg |-> [cg[u] EXCEPT !.procs = @ \ {pid}]]

\* AddProcessToCgroup: one write of the pid to the group's cgroup.procs,
\* which fails when the group does not exist
AddProcessToCgroup(username, pid, ok) ==
    /\ IF ~host.linux
       THEN /\ lret' = LRet("AddProcessToCgroup", username, "nil", <<>>, {})
            /\ UNCHANGED cgroups
       ELSE IF username \in DOMAIN cgroups /\ ok
       THEN /\ cgroups' = Attach(cgroups, username, pid)
            /\ lret' = LRet("AddProcessToCgroup", username, "nil",
                            <<ControlWrite("procs", pid)>>, {})
       ELSE /\ lret' = LRet("AddProcessToCgroup", username, "ErrIO",
                            <<ControlWrite("procs", pid)>>, {"procs"})
            /\ UNCHANGED cgroups
    /\ UNCHANGED <<host, quotas, removals>>

\* RemoveLimits, first step: nothing on another platform; else read the
\* group's cgroup.procs (no member is moved when the read fails)
RemoveLimitsRead(username) ==
    /\ username \notin DOMAIN removals
    /\ IF ~host.linux
       THEN /\ lret' = LRet("RemoveLimits", username, "nil", <<>>, {})
            /\ UNCHANGED removals
       ELSE /\ removals' = MapPut(removals, username,
                                  IF username \in DOMAIN cgroups
                                  THEN cgroups[username].procs ELSE {})
            /\ lret' = LRet("RemoveLimitsRead", username, "nil", <<>>, {})
    /\ UNCHANGED <<host, cgroups, quotas>>

\* RemoveLimits, the loop: write one pid read to the root cgroup.procs; the
\* error of the write is dropped
RemoveLimitsMove(username, pid, ok) ==
    /\ username \in DOMAIN removals
    /\ pid \in removals[username]
    /\ removals' = [removals EXCEPT ![username] = @ \ {pid}]
    /\ cgroups' = IF ok THEN Detach(cgroups, pid) ELSE cgroups
    /\ lret' = LRet("RemoveLimitsMove", username, "nil",
                    <<ControlWrite("procs", pid)>>,
                    IF ok THEN {} ELSE {"procs"})
    /\ UNCHANGED <<host, quotas>>

\* RemoveLimits, last step: os.RemoveAll of the group's directory.  The
\* kernel removes a group that has no member and refuses one that has.
RemoveLimitsRemoveAll(username) ==
    /\ username \in DOMAIN removals
    /\ removals[username] = {}
    /\ removals' = MapDelete(removals, username)
    /\ IF username \notin DOMAIN cgroups
       THEN /\ lret' = LRet("RemoveLimits", username, "nil", <<>>, {})
            /\ UNCHANGED cgroups
       ELSE IF cgroups[username].procs = {}
       THEN /\ cgroups' = MapDelete(cgroups, username)
            /\ lret' = LRet("RemoveLimits", username, "nil", <<>>, {})
       ELSE /\ lret' = LRet("RemoveLimits", username, "ErrBusy", <<>>, {})
            /\ UNCHANGED cgroups
    /\ UNCHANGED <<host, quotas>>

\* ------------------------------------------------- the user handlers
\* the *models.UserLimits createUser and updateUser build from a request
LimitsOf(username, req) ==
    [Username |-> username, MaxSites |-> req.SiteLimit,
     MaxDiskMB |-> req.DiskLimitMB, MaxRAMMB |-> req.RAMLimitMB,
     MaxCPUPercent |-> req.CPUPercent, MaxProcesses |-> req.MaxProcesses]

\* a handler that has recorded the limits and not yet applied them
Pending(handler, username, req) ==
    [handler |-> handler, username |-> username, req |-> req, status |-> 0]

\* the answer of a handler; body holds the limits getFastCPUser reports
Answer(handler, username, status, body) ==
    [handler |-> handler, username |-> username, status |-> status,
     body |-> body]

\* a handler stands between SetUserLimit and ApplyLimits
InFlight == resp.handler # "" /\ resp.status = 0

\* the groups usermod -aG adds the new account to
GroupsFor(req, fail) ==
    IF "usermod" \in fail THEN {}
    ELSE IF req.IsAdmin THEN {"fastcp", "sudo"} ELSE {"fastcp"}

\* createUser up to the recording of the limits: validate the request,
\* refuse an existing account, useradd, chpasswd (userdel when it fails),
\* join the groups, SetUserLimit (its error is logged)
createUser(req, fail) ==
    /\ ~InFlight
    /\ IF req.Username = "" \/ req.PasswordLen < 8
       THEN /\ resp' = Answer("createUser", req.Username, 400, <<>>)
            /\ UNCHANGED <<unixUsers, registryVars>>
       ELSE IF req.Username \in DOMAIN unixUsers
       THEN /\ resp' = Answer("createUser", req.Username, 409, <<>>)
            /\ UNCHANGED <<unixUsers, registryVars>>
       ELSE IF "useradd" \in fail \/ "chpasswd" \in fail
       THEN /\ resp' = Answer("createUser", req.Username, 500, <<>>)
            /\ UNCHANGED <<unixUsers, registryVars>>
       ELSE /\ unixUsers' = MapPut(unixUsers, req.Username,
                                   [NewAccount EXCEPT
                                       !.groups = GroupsFor(req, fail)])
            /\ SetUserLimit(LimitsOf(req.Username, req))
            /\ resp' = Pending("createUser", req.Username, req)
    /\ UNCHANGED <<host, cgroups, quotas, removals, lret, mu, pc, writing,
        doc, held>>

\* an end of createUser that gives up when ApplyLimits fails: it drops the
\* limits it recorded and answers 500
createUserApply_GivesUp(fail) ==
    LET limits == LimitsOf(resp.username, resp.req)
    IN  /\ InFlight
        /\ resp.handler = "createUser"
        /\ ApplyLimitsWith(unixUsers, limits, fail)
        /\ IF lret'.err # "nil"
           THEN /\ userLimits' = MapDelete(userLimits, resp.username)
                /\ resp' = Answer("createUser", resp.username, 500, <<>>)
           ELSE /\ userLimits' = userLimits
                /\ resp' = Answer("createUser", resp.username, 201,
                                  GetUserLimit(userLimits, resp.username))
        /\ UNCHANGED <<sites, domains, sitesFile, limitsFile, PHPVersions,
                       ioBudget, ret, unixUsers, mu, pc, writing,
                           doc, held>>

\* createUser from ApplyLimits on: apply the limits (an error is logged),
\* answer 201 with the user as getFastCPUser reads it
createUserApply(fail) ==
    LET limits == LimitsOf(resp.username, resp.req)
    IN  /\ InFlight
        /\ resp.handler = "createUser"
        /\ ApplyLimitsWith(unixUsers, limits, fail)
        /\ resp' = Answer("createUser", resp.username, 201,
                          GetUserLimit(userLimits, resp.username))
        /\ UNCHANGED <<sites, domains, userLimits, sitesFile, limitsFile,
                       PHPVersions, ioBudget, ret, unixUsers, mu, pc,
                       writing,
                           doc, held>>

\* updateUser up to the recording of the limits: the account must exist, a
\* password given is checked and set, SetUserLimit (its error is logged)
updateUser(username, req, fail) ==
    /\ ~InFlight
    /\ IF username \notin DOMAIN unixUsers
       THEN /\ resp' = Answer("updateUser", username, 404, <<>>)
            /\ UNCHANGED registryVars
       ELSE IF req.PasswordLen > 0 /\ req.PasswordLen < 8
       THEN /\ resp' = Answer("updateUser", username, 400, <<>>)
            /\ UNCHANGED registryVars
       ELSE IF req.PasswordLen > 0 /\ "chpasswd" \in fail
       THEN /\ resp' = Answer("updateUser", username, 500, <<>>)
            /\ UNCHANGED registryVars
       ELSE /\ SetUserLimit(LimitsOf(username, req))
            /\ resp' = Pending("updateUser", username, req)
    /\ UNCHANGED <<host, cgroups, quotas, removals, lret, unixUsers, mu, pc,
                   writing,
                       doc, held>>

\* updateUser from ApplyLimits on: apply the limits (an error is logged),
\* lock or unlock the account, answer 200
updateUserApply(fail) ==
    LET limits == LimitsOf(resp.username, resp.req)
    IN  /\ InFlight
        /\ resp.handler = "updateUser"
        /\ ApplyLimitsWith(unixUsers, limits, fail)
        /\ unixUsers' = IF "usermod" \in fail THEN unixUsers
                        ELSE [unixUsers EXCEPT ![resp.username].locked =
                                                   ~resp.req.Enabled]
        /\ resp' = Answer("updateUser", resp.username, 200,
                          GetUserLimit(userLimits, resp.username))
        /\ UNCHANGED <<sites, domains, userLimits, sitesFile, limitsFile,
                       PHPVersions, ioBudget, ret, mu, pc, writing,
                           doc, held>>

\* user.Lookup(username).Uid, as getFastCPUser reads it
Uid(username) ==
    IF username = "alice" THEN "1001"
    ELSE IF username = "bob" THEN "1002"
    ELSE IF username = "root" THEN "0"
    ELSE ""

\* the answer of deleteUser to the caller by
Removal(username, by, status) ==
    [handler |-> "deleteUser", username |-> username, by |-> by,
     status |-> status]

\* deleteUser: refuse the caller's own account and root, refuse a user for
\* whom List returns sites, then userdel -r
deleteUser(username, by, fail) ==
    /\ ~InFlight
    /\ IF username = by \/ username = "root"
       THEN /\ resp' = Removal(username, by, 400)
            /\ UNCHANGED unixUsers
       ELSE IF \E list \in List(sites, username) : Len(list) > 0
       THEN /\ resp' = Removal(username, by, 400)
            /\ UNCHANGED unixUsers
       ELSE IF "userdel" \in fail \/ username \notin DOMAIN unixUsers
       THEN /\ resp' = Removal(username, by, 500)
            /\ UNCHANGED unixUsers
       ELSE /\ unixUsers' = MapDelete(unixUsers, username)
            /\ resp' = Removal(username, by, 200)
    /\ UNCHANGED <<registryVars, enforcerVars, callerVars, readerVars>>

\* ------------------------------------------------- concurrent callers
\* the methods that take m.mu.Lock()
ExclusiveMethods == {"Create", "Update", "Delete", "Suspend", "Unsuspend",
                     "Load", "SetUserLimit"}

\* the methods that take m.mu.RLock()
SharedMethods == {"Save", "Get", "GetByDomain", "List", "GetAll",
                  "GetUserLimit"}

\* the caller is inside a method of the registry
InCall(c) == pc[c].at \notin {"idle", "done"}

\* a goroutine calls a method and arrives at its first statement, the
\* Lock or RLock of m.mu
Invoke(c, call) ==
    /\ pc[c].at = "idle"
    /\ LET running == {d \in Callers : InCall(d)}
       IN  pc' = [d \in Callers |->
                    IF d = c
                    THEN [at |-> "lock", call |-> call, err |-> "nil",
                          during |-> running]
                    ELSE IF d \in running
                    THEN [pc[d] EXCEPT !.during = @ \cup {c}]
                    ELSE pc[d]]
    /\ UNCHANGED <<registryVars, mu, writing>>

\* a mutex that lets every caller in
CanLock_Always(m) == TRUE

\* RWMutex.Lock returns when no goroutine holds the mutex in either mode
CanLock(m) == m.writer = "" /\ m.readers = {}

\* RWMutex.RLock returns when no goroutine holds it for writing
CanRLock(m) == m.writer = ""

Lock(c) ==
    /\ pc[c].at = "lock"
    /\ pc[c].call.op \in ExclusiveMethods
    /\ CanLock(mu)
    /\ mu' = [mu EXCEPT !.writer = c]
    /\ pc' = [pc EXCEPT ![c].at = "held"]
    /\ UNCHANGED <<registryVars, writing>>

RLock(c) ==
    /\ pc[c].at = "lock"
    /\ pc[c].call.op \in SharedMethods
    /\ CanRLock(mu)
    /\ mu' = [mu EXCEPT !.readers = @ \cup {c}]
    /\ pc' = [pc EXCEPT ![c].at = "held"]
    /\ UNCHANGED <<registryVars, writing>>

\* Create up to "Validate PHP version": the checks read the maps; a failed
\* one returns through the deferred Unlock
CallerCreateCheck(c) ==
    /\ pc[c].at = "held"
    /\ pc[c].call.op = "Create"
    /\ LET e == CreateCheck(sites, domains, userLimits, PHPVersions,
                            pc[c].call.site)
       IN  /\ pc' = [pc EXCEPT ![c].at = IF e = "nil" THEN "checked"
                                          ELSE "unlock",
                               ![c].err = e]
           /\ ret' = IF e = "nil" THEN ret ELSE Ret("Create", e, FALSE)
    /\ UNCHANGED <<sites, domains, userLimits, sitesFile, limitsFile,
                   PHPVersions, ioBudget, mu, writing>>

\* Create from "Set defaults" on: the directories, "Add to maps", and
\* saveUnlocked up to its call of os.WriteFile
CallerCreateInsert(c) ==
    /\ pc[c].at = "checked"
    /\ LET site == pc[c].call.site
       IN  \E id \in (IF site.ID # "" THEN {site.ID}
                      ELSE IF SiteIDs \subseteq DOMAIN sites THEN {}
                      ELSE {NewUUID(sites)}) :
               \/ /\ CanFail
                  /\ \E made \in BOOLEAN :
                         ret' = Ret("Create", "ErrCreateDirs", made)
                  /\ pc' = [pc EXCEPT ![c].at = "unlock",
                                      ![c].err = "ErrCreateDirs"]
                  /\ UNCHANGED <<sites, domains, sitesFile, writing>>
               \/ LET m == CreateInsert(sites, domains,
                                        CreateDefaults(site, id))
                  IN  /\ sites' = m.sites
                      /\ domains' = m.domains
                      /\ \E o \in saveUnlocked(m.sites, sitesFile, CanFail) :
                             /\ sitesFile' = o.file
                             /\ ret' = Ret("Create", o.err, TRUE)
                             /\ pc' = [pc EXCEPT ![c].at = "writing",
                                                 ![c].err = o.err]
                      /\ writing' = writing \cup {c}
    /\ ioBudget' = Budget(ret'.err)
    /\ UNCHANGED <<userLimits, limitsFile, PHPVersions, mu>>

\* the caller holds the lock of its method and has not run its body
Holding(c, op) == pc[c].at = "held" /\ pc[c].call.op = op

\* a method that returned err got as far as the rewrite of sites.json
Rewrote(err) == err \in {"nil", "ErrIO"}

\* the body of a method up to its call of os.WriteFile, or up to the
\* return that comes before it
Entered(c) ==
    /\ pc' = [pc EXCEPT ![c].at = IF Rewrote(ret'.err) THEN "writing"
                                   ELSE "unlock",
                        ![c].err = ret'.err]
    /\ writing' = IF Rewrote(ret'.err) THEN writing \cup {c} ELSE writing
    /\ UNCHANGED mu

CallerUpdate(c) ==
    /\ Holding(c, "Update")
    /\ Update(pc[c].call.id, pc[c].call.updates)
    /\ Entered(c)

CallerDelete(c) ==
    /\ Holding(c, "Delete")
    /\ Delete(pc[c].call.id)
    /\ Entered(c)

CallerSuspend(c) ==
    /\ Holding(c, "Suspend")
    /\ Suspend(pc[c].call.id)
    /\ Entered(c)

CallerUnsuspend(c) ==
    /\ Holding(c, "Unsuspend")
    /\ Unsuspend(pc[c].call.id)
    /\ Entered(c)

CallerSave(c) ==
    /\ Holding(c, "Save")
    /\ Save
    /\ Entered(c)

\* os.WriteFile returns
WriteFileReturns(c) ==
    /\ pc[c].at = "writing"
    /\ writing' = writing \ {c}
    /\ pc' = [pc EXCEPT ![c].at = "unlock"]
    /\ UNCHANGED <<registryVars, mu>>

\* a deferred unlock that runs only on the return of nil
Unlock_OnSuccessOnly(c) ==
    /\ pc[c].at = "unlock"
    /\ pc[c].call.op \in ExclusiveMethods
    /\ mu' = IF pc[c].err = "nil" THEN [mu EXCEPT !.writer = ""] ELSE mu
    /\ pc' = [pc EXCEPT ![c].at = "done"]
    /\ UNCHANGED <<registryVars, writing>>

\* the deferred m.mu.Unlock(), and the return to the caller
Unlock(c) ==
    /\ pc[c].at = "unlock"
    /\ pc[c].call.op \in ExclusiveMethods
    /\ mu' = [mu EXCEPT !.writer = ""]
    /\ pc' = [pc EXCEPT ![c].at = "done"]
    /\ UNCHANGED <<registryVars, writing>>

\* the deferred m.mu.RUnlock() of a reading method, and the return
RUnlock(c) ==
    /\ pc[c].at = "unlock"
    /\ pc[c].call.op \in SharedMethods
    /\ mu' = [mu EXCEPT !.readers = @ \ {c}]
    /\ pc' = [pc EXCEPT ![c].at = "done"]
    /\ UNCHANGED <<registryVars, writing>>

\* the method returns what its body computed, through the deferred unlock
Returns(c, err) ==
    /\ pc' = [pc EXCEPT ![c].at = "unlock", ![c].err = err]
    /\ UNCHANGED <<mu, writing>>

CallerLoad(c) ==
    /\ Holding(c, "Load")
    /\ Load
    /\ Returns(c, ret'.err)

\* SetUserLimit; the record the caller passes is drawn here
CallerSetUserLimit(c) ==
    /\ Holding(c, "SetUserLimit")
    /\ \E limit \in [Username : Usernames, MaxSites : {MaxSitesLimit}] :
           SetUserLimit(limit)
    /\ Returns(c, ret'.err)

\* Get, GetByDomain, List, GetAll and GetUserLimit read the maps; the
\* string a method takes (id, domain, userID, username) is call.id
CallerRead(c) ==
    /\ pc[c].at = "held"
    /\ pc[c].call.op \in SharedMethods \ {"Save"}
    /\ Returns(c, IF pc[c].call.op = "Get"
                  THEN Get(sites, pc[c].call.id).err
                  ELSE IF pc[c].call.op = "GetByDomain"
                  THEN GetByDomain(sites, domains, pc[c].call.id).err
                  ELSE "nil")
    /\ UNCHANGED registryVars

\* a call of Lock is waiting for the mutex
WriterWaits ==
    \E d \in Callers : pc[d].at = "lock" /\ pc[d].call.op \in ExclusiveMethods

\* sync.RWMutex.RLock: while a Lock call waits for readers to leave, no new
\* reader is let in
RLockBehindWriters(c) ==
    /\ mu.readers = {} \/ ~WriterWaits
    /\ RLock(c)

\* a goroutine calls a method; which calls overlap is not recorded
Enter(c, call) ==
    /\ pc[c].at = "idle"
    /\ pc' = [pc EXCEPT ![c] = [at |-> "lock", call |-> call,
                                err |-> "nil", during |-> {}]]
    /\ UNCHANGED <<registryVars, mu, writing>>

\* the goroutine has its result and is free to make its next call
Again(c) ==
    /\ pc[c].at = "done"
    /\ pc' = [pc EXCEPT ![c] = Idle]
    /\ UNCHANGED <<registryVars, mu, writing>>

\* ------------------------------------------------- results of reads
\* what a caller keeps of a read: the site as it was returned, the site as
\* the caller's reference shows it now, and whether the reference is the
\* pointer under which the registry still stores the site
Handle(via, site, live) ==
    [via |-> via, id |-> site.ID, seen |-> site, now |-> site, live |-> live]

\* Get returns the pointer stored in m.sites
ReadGet(id) ==
    /\ held' = IF Get(sites, id).err = "nil"
               THEN {Handle("Get", sites[id], TRUE)}
               ELSE {}
    /\ UNCHANGED registryVars

\* GetByDomain returns the pointer stored under the indexed ID
ReadGetByDomain(domain) ==
    /\ LET r == GetByDomain(sites, domains, domain)
       IN  held' = IF r.err = "nil" /\ r.site # NilSite
                   THEN {Handle("GetByDomain", r.site, TRUE)}
                   ELSE {}
    /\ UNCHANGED registryVars

\* List returns the stored pointers of the owner's sites
ReadList(userID) ==
    /\ \E list \in List(sites, userID) :
           held' = {Handle("List", sites[list[i]], TRUE) : i \in DOMAIN list}
    /\ UNCHANGED registryVars

\* GetAll returns copies of the stored sites
ReadGetAll ==
    /\ \E list \in GetAll(sites) :
           held' = {Handle("GetAll", list[i], FALSE) : i \in DOMAIN list}
    /\ UNCHANGED registryVars

\* a reference after a call of the registry: Update, Suspend and Unsuspend
\* assign to the fields of the stored site through its pointer, Delete
\* takes the pointer out of m.sites and leaves the site as it is
Follow(h) ==
    IF ~h.live THEN h
    ELSE IF h.id \in DOMAIN sites' THEN [h EXCEPT !.now = sites'[h.id]]
    ELSE [h EXCEPT !.live = FALSE]

\* the references callers hold, after a call that writes
Followed == held' = {Follow(h) : h \in held}

\* ------------------------------------------------------ caddy.Generator
\* one buf.WriteString of the generator: the directive, and its string and
\* integer operands
Line(kind, str, num) == [kind |-> kind, str |-> str, num |-> num]

\* sanitizeName: "-" and "." become "_".  The IDs of the model hold
\* neither character.
sanitizeName(id) == id

\* GeneratePHPInstance, "Filter sites for this PHP version"
RECURSIVE versionSites(_, _)
versionSites(list, version) ==
    IF list = <<>> THEN <<>>
    ELSE IF Head(list).PHPVersion = version /\ Head(list).Status = "active"
         THEN <<Head(list)>> \o versionSites(Tail(list), version)
         ELSE versionSites(Tail(list), version)

\* the global options block
GlobalOptions(version, adminPort) ==
    <<Line("header", version, 0), Line("admin", "localhost", adminPort),
      Line("frankenphp", "", 0), Line("log", version, 0)>>

\* "If no sites, create a minimal placeholder config"
Placeholder(version, port) ==
    <<Line("comment", version, 0), Line("listen", "", port),
      Line("respond", "No sites configured", 503), Line("close", "", 0)>>

\* the env directives: none for a nil or empty Environment
EnvLines(site) ==
    IF site.Environment = NilEnvironment THEN <<>>
    ELSE <<Line("env", site.Environment, 0)>>

\* the php_server directive of a site; stat: os.Stat finds the worker file
PHPServer(site, stat) ==
    IF site.WorkerMode /\ site.WorkerFile # ""
    THEN IF ~stat
         THEN <<Line("warning", site.WorkerFile, 0),
                Line("php_server", "", 0)>>
         ELSE <<Line("php_server", "", 0),
                Line("worker", site.WorkerFile,
                     IF site.WorkerNum <= 0 THEN 2 ELSE site.WorkerNum)>>
              \o EnvLines(site)
    ELSE <<Line("php_server", "", 0)>> \o EnvLines(site)

\* the handle block of one site
SiteBlock(site, stat) ==
    <<Line("site", site.Domain, 0),
      Line("host", sanitizeName(site.ID), Len(site.Aliases) + 1),
      Line("handle", sanitizeName(site.ID), 0),
      Line("root", site.PublicPath, 0),
      Line("encode", "zstd br gzip", 0)>>
    \o PHPServer(site, stat)
    \o <<Line("close", "", 0)>>

RECURSIVE SiteBlocks(_, _)
SiteBlocks(list, stat) ==
    IF list = <<>> THEN <<>>
    ELSE SiteBlock(Head(list), stat) \o SiteBlocks(Tail(list), stat)

\* "Default fallback for unmatched hosts"
DefaultFallback ==
    <<Line("handle", "", 0), Line("respond", "Site not found", 404),
      Line("close", "", 0)>>

\* a generator without the placeholder branch
PHPInstanceText_NoPlaceholder(version, port, adminPort, list, stat) ==
    GlobalOptions(version, adminPort)
    \o <<Line("listen", "", port)>>
    \o SiteBlocks(versionSites(list, version), stat)
    \o DefaultFallback
    \o <<Line("close", "", 0)>>

\* the string GeneratePHPInstance returns
PHPInstanceText(version, port, adminPort, list, stat) ==
    IF versionSites(list, version) = <<>>
    THEN GlobalOptions(version, adminPort) \o Placeholder(version, port)
    ELSE GlobalOptions(version, adminPort)
         \o <<Line("listen", "", port)>>
         \o SiteBlocks(versionSites(list, version), stat)
         \o DefaultFallback
         \o <<Line("close", "", 0)>>

\* GeneratePHPInstance, called with what GetAll returned
GeneratePHPInstance(version, port, adminPort, list, stat) ==
    /\ doc' = [op |-> "GeneratePHPInstance", version |-> version,
               port |-> port, err |-> "nil", sites |-> list,
               text |-> PHPInstanceText(version, port, adminPort, list,
                                        stat)]
    /\ UNCHANGED <<registryVars, enforcerVars, apiVars, callerVars, held>>

\* ------------------------------------------------------- specifications
\* the *models.UserLimits a caller passes to SetUserLimit
LimitInputs == [Username : Usernames, MaxSites : 0..MaxSitesLimit]

\* Spec: sites created, patched and deleted; every write to disk succeeds.
\* the *models.Site a caller passes to Create
CreateInputs ==
    [ID : {""}, Domain : Hostnames, Aliases : AliasLists,
     PHPVersion : TableVersions \cup {AbsentVersion},
     Status : {""}, UserID : {"1001"},
     Name : {""}, PublicPath : {""}, WorkerMode : {FALSE},
     WorkerFile : {""}, WorkerNum : {0}, Environment : {NilEnvironment}]

\* the *models.Site a caller passes to Update as the patch
UpdateInputs ==
    [Domain : Hostnames \cup {""}, Aliases : AliasLists \cup {NilAliases},
     PHPVersion : {AbsentVersion, ""}, Status : {""},
     Name : {""}, PublicPath : {""}, WorkerMode : {FALSE},
     WorkerFile : {""}, WorkerNum : {0}, Environment : {NilEnvironment}]

Next ==
    \/ \E site \in CreateInputs : Create(site) /\ UNCHANGED outsideRegistry
    \/ \E id \in SiteIDs, updates \in UpdateInputs : Update(id, updates)
           /\ UNCHANGED outsideRegistry
    \/ \E id \in SiteIDs : Delete(id) /\ UNCHANGED outsideRegistry

Spec == Init /\ [][Next]_vars

\* SpecCreate: sites of several owners created and deleted while the
\* owners' limits are set and the runtime table changes.
OwnerCreateInputs ==
    [ID : {""}, Domain : FewHostnames, Aliases : FewAliasLists,
     PHPVersion : TableVersions \cup {AbsentVersion},
     Status : {""}, UserID : UserIDs,
     Name : {""}, PublicPath : {""}, WorkerMode : {FALSE},
     WorkerFile : {""}, WorkerNum : {0}, Environment : {NilEnvironment}]

NextCreate ==
    \/ \E site \in OwnerCreateInputs : Create(site)
           /\ UNCHANGED outsideRegistry
    \/ \E id \in SiteIDs : Delete(id) /\ UNCHANGED outsideRegistry
    \/ \E limit \in LimitInputs : SetUserLimit(limit)
           /\ UNCHANGED outsideRegistry
    \/ \E version \in TableVersions, enabled \in BOOLEAN :
           SetPHPEnabled(version, enabled) /\ UNCHANGED outsideRegistry

SpecCreate == Init /\ [][NextCreate]_vars

\* SpecIO: every mutating call in an environment whose I/O can fail.
IOCreateInputs ==
    [ID : {""}, Domain : FewHostnames, Aliases : {<<>>},
     PHPVersion : TableVersions, Status : {""}, UserID : {"1001"},
     Name : {""}, PublicPath : {""}, WorkerMode : {FALSE},
     WorkerFile : {""}, WorkerNum : {0}, Environment : {NilEnvironment}]

IOUpdateInputs ==
    [Domain : FewHostnames \cup {""}, Aliases : {NilAliases},
     PHPVersion : {""}, Status : {""},
     Name : {""}, PublicPath : {""}, WorkerMode : {FALSE},
     WorkerFile : {""}, WorkerNum : {0}, Environment : {NilEnvironment}]

NextIO ==
    \/ \E site \in IOCreateInputs : Create(site) /\ UNCHANGED outsideRegistry
    \/ \E id \in SiteIDs, updates \in IOUpdateInputs : Update(id, updates)
           /\ UNCHANGED outsideRegistry
    \/ \E id \in SiteIDs : Delete(id) /\ UNCHANGED outsideRegistry
    \/ \E id \in SiteIDs : Suspend(id) /\ UNCHANGED outsideRegistry
    \/ \E id \in SiteIDs : Unsuspend(id) /\ UNCHANGED outsideRegistry

SpecIO == InitIO /\ [][NextIO]_vars

\* SpecPersist: the registry's life cycle, construct, Load, operate, Save.
PersistCreateInputs ==
    [ID : {""}, Domain : FewHostnames,
     Aliases : FewAliasLists,
     PHPVersion : TableVersions, Status : {""}, UserID : {"admin"},
     Name : {""}, PublicPath : {""}, WorkerMode : {FALSE},
     WorkerFile : {""}, WorkerNum : {0}, Environment : {NilEnvironment}]

PersistUpdateInputs ==
    [Domain : FewHostnames \cup {""}, Aliases : {NilAliases},
     PHPVersion : {AbsentVersion, ""}, Status : {""},
     Name : {""}, PublicPath : {""}, WorkerMode : {FALSE},
     WorkerFile : {""}, WorkerNum : {0}, Environment : {NilEnvironment}]

NextPersist ==
    \/ NewManager /\ UNCHANGED outsideRegistry
    \/ Load /\ UNCHANGED outsideRegistry
    \/ Save /\ UNCHANGED outsideRegistry
    \/ \E site \in PersistCreateInputs : Create(site)
           /\ UNCHANGED outsideRegistry
    \/ \E id \in SiteIDs, updates \in PersistUpdateInputs : Update(id, updates)
           /\ UNCHANGED outsideRegistry
    \/ \E id \in SiteIDs : Delete(id) /\ UNCHANGED outsideRegistry
    \/ \E limit \in LimitInputs : SetUserLimit(limit)
           /\ UNCHANGED outsideRegistry

SpecPersist == Init /\ [][NextPersist]_vars

\* SpecFields: sites created with and without the optional fields, patched
\* field by field, suspended, reactivated and deleted.
\* the optional fields left at their zero values
PlainSettings ==
    [Name |-> "", PublicPath |-> "", Status |-> "", WorkerMode |-> FALSE,
     WorkerFile |-> "", WorkerNum |-> 0, Environment |-> NilEnvironment]

\* the optional fields all given
FullSettings ==
    [Name |-> "Blog", PublicPath |-> "web", Status |-> "suspended",
     WorkerMode |-> TRUE, WorkerFile |-> "worker.php", WorkerNum |-> 2,
     Environment |-> "{APP_ENV:prod}"]

\* a patch of the Status alone
ActivateSettings == [PlainSettings EXCEPT !.Status = "active"]

FieldCreateInputs ==
    {[ID |-> id, Domain |-> h, Aliases |-> a, PHPVersion |-> v,
      UserID |-> "admin", Name |-> p.Name, PublicPath |-> p.PublicPath,
      Status |-> p.Status, WorkerMode |-> p.WorkerMode,
      WorkerFile |-> p.WorkerFile, WorkerNum |-> p.WorkerNum,
      Environment |-> p.Environment] :
        id \in {""}, h \in FewHostnames, a \in {<<>>, <<"c.test">>},
        v \in TableVersions, p \in {PlainSettings, FullSettings}}

FieldUpdateInputs ==
    {[Domain |-> "", Aliases |-> a, PHPVersion |-> v,
      Name |-> p.Name, PublicPath |-> p.PublicPath,
      Status |-> p.Status, WorkerMode |-> p.WorkerMode,
      WorkerFile |-> p.WorkerFile, WorkerNum |-> p.WorkerNum,
      Environment |-> p.Environment] :
        a \in {NilAliases}, v \in {"", AbsentVersion},
        p \in {PlainSettings, FullSettings, ActivateSettings}}

NextFields ==
    \/ \E site \in FieldCreateInputs : Create(site)
           /\ UNCHANGED outsideRegistry
    \/ \E id \in SiteIDs, updates \in FieldUpdateInputs : Update(id, updates)
           /\ UNCHANGED outsideRegistry
    \/ \E id \in SiteIDs : Delete(id) /\ UNCHANGED outsideRegistry
    \/ \E id \in SiteIDs : Suspend(id) /\ UNCHANGED outsideRegistry
    \/ \E id \in SiteIDs : Unsuspend(id) /\ UNCHANGED outsideRegistry

SpecFields == Init /\ [][NextFields]_vars

\* SpecRuntime: sites created and moved between runtime versions while the
\* instances of the table are enabled and disabled.
RuntimeVersions == {"8.2", "8.3"}

\* NewManager on an empty data directory, cfg.PHPVersions listing two
\* instances
InitRuntime ==
    /\ sites = EmptyMap
    /\ domains = EmptyMap
    /\ userLimits = EmptyMap
    /\ sitesFile = NoFile
    /\ limitsFile = NoFile
    /\ PHPVersions = [v \in RuntimeVersions |-> TRUE]
    /\ ioBudget = 0
    /\ ret = Ret("NewManager", "nil", FALSE)
    /\ RegistryAlone

RuntimeCreateInputs ==
    [ID : {""}, Domain : FewHostnames, Aliases : {<<>>},
     PHPVersion : RuntimeVersions \cup {AbsentVersion},
     Status : {""}, UserID : {"admin"},
     Name : {""}, PublicPath : {""}, WorkerMode : {FALSE},
     WorkerFile : {""}, WorkerNum : {0}, Environment : {NilEnvironment}]

RuntimeUpdateInputs ==
    [Domain : {""}, Aliases : {NilAliases},
     PHPVersion : RuntimeVersions \cup {AbsentVersion, ""}, Status : {""},
     Name : {""}, PublicPath : {""}, WorkerMode : {FALSE},
     WorkerFile : {""}, WorkerNum : {0}, Environment : {NilEnvironment}]

NextRuntime ==
    \/ \E site \in RuntimeCreateInputs : Create(site)
           /\ UNCHANGED outsideRegistry
    \/ \E id \in SiteIDs, updates \in RuntimeUpdateInputs :
           Update(id, updates) /\ UNCHANGED outsideRegistry
    \/ \E version \in RuntimeVersions, enabled \in BOOLEAN :
           SetPHPEnabled(version, enabled) /\ UNCHANGED outsideRegistry

SpecRuntime == InitRuntime /\ [][NextRuntime]_vars

\* SpecLimits: the limits of two owners set and reset while a site is
\* created, patched, suspended and deleted, in an environment whose I/O can
\* fail.
LimitUsernames == {"alice", "bob"}

OwnerLimitInputs == [Username : LimitUsernames, MaxSites : 0..MaxSitesLimit]

LimitsCreateInputs ==
    [ID : {""}, Domain : {"a.test"}, Aliases : {<<>>},
     PHPVersion : TableVersions, Status : {""}, UserID : {"1001"},
     Name : {""}, PublicPath : {""}, WorkerMode : {FALSE},
     WorkerFile : {""}, WorkerNum : {0}, Environment : {NilEnvironment}]

LimitsUpdateInputs ==
    [Domain : {"", "b.test"}, Aliases : {NilAliases},
     PHPVersion : {""}, Status : {""},
     Name : {""}, PublicPath : {""}, WorkerMode : {FALSE},
     WorkerFile : {""}, WorkerNum : {0}, Environment : {NilEnvironment}]

NextLimits ==
    \/ \E limit \in OwnerLimitInputs : SetUserLimit(limit)
           /\ UNCHANGED outsideRegistry
    \/ \E site \in LimitsCreateInputs : Create(site)
           /\ UNCHANGED outsideRegistry
    \/ \E id \in SiteIDs, updates \in LimitsUpdateInputs : Update(id, updates)
           /\ UNCHANGED outsideRegistry
    \/ \E id \in SiteIDs : Delete(id) /\ UNCHANGED outsideRegistry
    \/ \E id \in SiteIDs : Suspend(id) /\ UNCHANGED outsideRegistry
    \/ \E id \in SiteIDs : Unsuspend(id) /\ UNCHANGED outsideRegistry

SpecLimits == InitIO /\ [][NextLimits]_vars

\* SpecStatus: sites created and patched by callers that fill in the Status
\* field themselves, next to Suspend and Unsuspend.
CallerStatuses == {"", "active", "suspended", "paused"}

StatusCreateInputs ==
    [ID : {""}, Domain : FewHostnames, Aliases : {<<>>},
     PHPVersion : TableVersions, Status : CallerStatuses, UserID : {"1001"},
     Name : {""}, PublicPath : {""}, WorkerMode : {FALSE},
     WorkerFile : {""}, WorkerNum : {0}, Environment : {NilEnvironment}]

StatusUpdateInputs ==
    [Domain : {""}, Aliases : {NilAliases},
     PHPVersion : {""}, Status : CallerStatuses,
     Name : {"", "Blog"}, PublicPath : {""}, WorkerMode : {FALSE},
     WorkerFile : {""}, WorkerNum : {0}, Environment : {NilEnvironment}]

NextStatus ==
    \/ \E site \in StatusCreateInputs : Create(site)
           /\ UNCHANGED outsideRegistry
    \/ \E id \in SiteIDs, updates \in StatusUpdateInputs : Update(id, updates)
           /\ UNCHANGED outsideRegistry
    \/ \E id \in SiteIDs : Suspend(id) /\ UNCHANGED outsideRegistry
    \/ \E id \in SiteIDs : Unsuspend(id) /\ UNCHANGED outsideRegistry

SpecStatus == Init /\ [][NextStatus]_vars

\* SpecEnforcer: the limits of one tenant applied again and again on a Linux
\* host with cgroup v2 and the quota tools, built with a 32-bit or a 64-bit
\* int, while single steps of a call fail.
InitEnforcer ==
    /\ sites = EmptyMap
    /\ domains = EmptyMap
    /\ userLimits = EmptyMap
    /\ sitesFile = NoFile
    /\ limitsFile = NoFile
    /\ PHPVersions = [v \in TableVersions |-> TRUE]
    /\ ioBudget = 0
    /\ ret = Ret("NewManager", "nil", FALSE)
    /\ host \in {h \in Hosts : h.linux /\ h.cgroupV2 /\ h.setquota}
    /\ NoEnforcement
    /\ unixUsers = HostAccounts
    /\ resp = NoResponse
    /\ NoCallers
    /\ NoReaders

\* the steps of ApplyLimits that fail on their own here: creating the
\* group's directory, the three control writes, df and setquota
ApplySteps == {"mkdir", "memory", "cpu", "pids", "df", "quota"}

\* the steps that fail during one call
FailureSets(steps) == {f \in SUBSET steps : Cardinality(f) <= MaxFailedSteps}

\* the failures the environment can mix into one call of ApplyLimits
ApplyFailures == FailureSets(ApplySteps)

\* the *models.UserLimits a caller passes to ApplyLimits
EnforcerLimitInputs ==
    [Username : {"alice"}, MaxSites : {0}, MaxDiskMB : {0, 1024},
     MaxRAMMB : {0, 512}, MaxCPUPercent : CPUPercents,
     MaxProcesses : {0, 100}]

\* what memory.current can hold
MemoryCounters == {0, 3 * 1024 * 1024}

\* what the limits manager leaves alone
outsideEnforcer == <<sites, domains, userLimits, sitesFile, limitsFile,
                     PHPVersions, ioBudget, ret, unixUsers, resp, mu, pc,
                     writing,
                         doc, held>>

NextEnforcer ==
    \/ \E limits \in EnforcerLimitInputs, fail \in ApplyFailures :
           ApplyLimits(limits, fail) /\ UNCHANGED outsideEnforcer
    \/ \E bytes \in MemoryCounters :
           GetUsage("alice", bytes) /\ UNCHANGED outsideEnforcer

SpecEnforcer == InitEnforcer /\ [][NextEnforcer]_vars

\* SpecPlatform: the limits manager on every kind of host, Linux or not,
\* with or without cgroup v2 and the quota tools; alice has an account, bob
\* has none.
InitPlatform ==
    /\ sites = EmptyMap
    /\ domains = EmptyMap
    /\ userLimits = EmptyMap
    /\ sitesFile = NoFile
    /\ limitsFile = NoFile
    /\ PHPVersions = [v \in TableVersions |-> TRUE]
    /\ ioBudget = 0
    /\ ret = Ret("NewManager", "nil", FALSE)
    /\ host \in Hosts
    /\ NoEnforcement
    /\ unixUsers = HostAccounts
    /\ resp = NoResponse
    /\ NoCallers
    /\ NoReaders

Tenants == {"alice", "bob"}

PlatformLimitInputs ==
    [Username : Tenants, MaxSites : {0}, MaxDiskMB : {0, 1024},
     MaxRAMMB : {0, 512}, MaxCPUPercent : {0}, MaxProcesses : {0}]

PlatformFailures ==
    FailureSets({"mkdir", "subtree_control", "memory", "df", "quota"})

\* the processes of the tenants' sites
Pids == {101}

NextPlatform ==
    \/ \E limits \in PlatformLimitInputs, fail \in PlatformFailures :
           ApplyLimits(limits, fail) /\ UNCHANGED outsideEnforcer
    \/ \E username \in Tenants, bytes \in MemoryCounters :
           GetUsage(username, bytes) /\ UNCHANGED outsideEnforcer
    \/ \E username \in Tenants, pid \in Pids, ok \in BOOLEAN :
           AddProcessToCgroup(username, pid, ok) /\ UNCHANGED outsideEnforcer
    \/ \E username \in Tenants :
           RemoveLimitsRead(username) /\ UNCHANGED outsideEnforcer
    \/ \E username \in Tenants, pid \in Pids, ok \in BOOLEAN :
           RemoveLimitsMove(username, pid, ok) /\ UNCHANGED outsideEnforcer
    \/ \E username \in Tenants :
           RemoveLimitsRemoveAll(username) /\ UNCHANGED outsideEnforcer

SpecPlatform == InitPlatform /\ [][NextPlatform]_vars

\* SpecAPI: users created and updated through the API, one request at a
\* time, on a Linux host where steps of a handler can fail.
\* the CreateUserRequest of a call; the password is kept as its length
CreateUserRequests ==
    [Username : {"", "alice", "bob"}, PasswordLen : {7, 8},
     IsAdmin : BOOLEAN, SiteLimit : {0}, DiskLimitMB : {0},
     RAMLimitMB : {0, 512}, CPUPercent : {0}, MaxProcesses : {0}]

\* the UpdateUserRequest of a call
UpdateUserRequests ==
    [PasswordLen : {0, 7, 8}, Enabled : BOOLEAN, SiteLimit : {0},
     DiskLimitMB : {0}, RAMLimitMB : {0, 512}, CPUPercent : {0},
     MaxProcesses : {0}]

\* the steps of a handler that can fail
APIFailures ==
    FailureSets({"useradd", "chpasswd", "usermod", "mkdir", "memory"})

NextAPI ==
    \/ \E req \in CreateUserRequests, fail \in APIFailures :
           createUser(req, fail)
    \/ \E fail \in APIFailures : createUserApply(fail)
    \/ \E username \in Tenants, req \in UpdateUserRequests,
          fail \in APIFailures : updateUser(username, req, fail)
    \/ \E fail \in APIFailures : updateUserApply(fail)

SpecAPI == Init /\ [][NextAPI]_vars

\* SpecCallers: three goroutines, each making one call of the registry,
\* interleaved statement by statement at the lock, the maps and the file.
CallerSites ==
    [ID : {""}, Domain : FewHostnames, Aliases : {<<>>, <<"a.test">>},
     PHPVersion : TableVersions, Status : {""}, UserID : {"1001"},
     Name : {""}, PublicPath : {""}, WorkerMode : {FALSE},
     WorkerFile : {""}, WorkerNum : {0}, Environment : {NilEnvironment}]

CallerUpdates == {[NoUpdates EXCEPT !.Name = "Blog"]}

CallerCalls ==
    [op : {"Create"}, id : {""}, site : CallerSites, updates : {NoUpdates}]
    \cup [op : {"Update"}, id : {"s1"}, site : {NoSite},
          updates : CallerUpdates]
    \cup [op : {"Delete", "Suspend", "Unsuspend"}, id : {"s1"},
          site : {NoSite}, updates : {NoUpdates}]
    \cup [op : {"Save"}, id : {""}, site : {NoSite}, updates : {NoUpdates}]

\* what the callers of the registry leave alone
outsideCallers == <<host, cgroups, quotas, removals, lret, unixUsers, resp,
                    doc, held>>

NextCallers ==
    \/ \E c \in Callers, call \in CallerCalls : Invoke(c, call)
           /\ UNCHANGED outsideCallers
    \/ \E c \in Callers : Lock(c) /\ UNCHANGED outsideCallers
    \/ \E c \in Callers : RLock(c) /\ UNCHANGED outsideCallers
    \/ \E c \in Callers : CallerCreateCheck(c) /\ UNCHANGED outsideCallers
    \/ \E c \in Callers : CallerCreateInsert(c) /\ UNCHANGED outsideCallers
    \/ \E c \in Callers : CallerUpdate(c) /\ UNCHANGED outsideCallers
    \/ \E c \in Callers : CallerDelete(c) /\ UNCHANGED outsideCallers
    \/ \E c \in Callers : CallerSuspend(c) /\ UNCHANGED outsideCallers
    \/ \E c \in Callers : CallerUnsuspend(c) /\ UNCHANGED outsideCallers
    \/ \E c \in Callers : CallerSave(c) /\ UNCHANGED outsideCallers
    \/ \E c \in Callers : WriteFileReturns(c) /\ UNCHANGED outsideCallers
    \/ \E c \in Callers : Unlock(c) /\ UNCHANGED outsideCallers
    \/ \E c \in Callers : RUnlock(c) /\ UNCHANGED outsideCallers

SpecCallers == Init /\ [][NextCallers]_vars

\* SpecRender: sites of one runtime version created, suspended, reactivated
\* and deleted, and the instance document rendered in between for that
\* version and for one that has no site.
RenderVersions == TableVersions \cup {"8.2"}

InstancePorts == {9001, 9002}

RenderCreateInputs ==
    [ID : {""}, Domain : FewHostnames, Aliases : {<<>>},
     PHPVersion : TableVersions, Status : {"", "suspended"},
     UserID : {"1001"}, Name : {""}, PublicPath : {""},
     WorkerMode : {TRUE}, WorkerFile : {"worker.php"}, WorkerNum : {0},
     Environment : {NilEnvironment}]

NextRender ==
    \/ \E site \in RenderCreateInputs : Create(site)
           /\ UNCHANGED outsideRegistry
    \/ \E id \in SiteIDs : Suspend(id) /\ UNCHANGED outsideRegistry
    \/ \E id \in SiteIDs : Unsuspend(id) /\ UNCHANGED outsideRegistry
    \/ \E id \in SiteIDs : Delete(id) /\ UNCHANGED outsideRegistry
    \/ \E version \in RenderVersions, port \in InstancePorts,
          list \in GetAll(sites), stat \in BOOLEAN :
           GeneratePHPInstance(version, port, port + 1000, list, stat)

SpecRender == Init /\ [][NextRender]_vars

\* SpecIDs: sites created by callers that leave the ID to Create or fill it
\* in themselves, renamed and deleted.
IDCreateInputs ==
    [ID : {"", "s1"}, Domain : Hostnames, Aliases : {<<>>},
     PHPVersion : TableVersions, Status : {""}, UserID : {"1001"},
     Name : {"", "Blog"}, PublicPath : {""}, WorkerMode : {FALSE},
     WorkerFile : {""}, WorkerNum : {0}, Environment : {NilEnvironment}]

IDUpdateInputs == {[NoUpdates EXCEPT !.Name = "Shop"]}

NextIDs ==
    \/ \E site \in IDCreateInputs : Create(site) /\ UNCHANGED outsideRegistry
    \/ \E id \in SiteIDs, updates \in IDUpdateInputs : Update(id, updates)
           /\ UNCHANGED outsideRegistry
    \/ \E id \in SiteIDs : Delete(id) /\ UNCHANGED outsideRegistry

SpecIDs == Init /\ [][NextIDs]_vars

\* SpecDeleteUser: sites created for an owner given by uid or by name and
\* deleted again, while callers ask for accounts to be removed.
OwnedCreateInputs ==
    [ID : {""}, Domain : FewHostnames, Aliases : {<<>>},
     PHPVersion : TableVersions, Status : {""}, UserID : {"1001", "alice"},
     Name : {""}, PublicPath : {""}, WorkerMode : {FALSE},
     WorkerFile : {""}, WorkerNum : {0}, Environment : {NilEnvironment}]

RemovedUsers == {"alice", "bob", "root"}

RemovingUsers == {"admin", "alice"}

NextDeleteUser ==
    \/ \E site \in OwnedCreateInputs : Create(site)
           /\ UNCHANGED outsideRegistry
    \/ \E id \in SiteIDs : Delete(id) /\ UNCHANGED outsideRegistry
    \/ \E username \in RemovedUsers, by \in RemovingUsers,
          fail \in {{}, {"userdel"}} : deleteUser(username, by, fail)

SpecDeleteUser == Init /\ [][NextDeleteUser]_vars

\* SpecStats: sites of two runtime versions created with a Status of the
\* caller's or none, suspended, reactivated and deleted.
StatsCreateInputs ==
    [ID : {""}, Domain : FewHostnames, Aliases : {<<>>},
     PHPVersion : RuntimeVersions, Status : {"", "suspended", "paused"},
     UserID : {"admin"}, Name : {""}, PublicPath : {""},
     WorkerMode : {FALSE}, WorkerFile : {""}, WorkerNum : {0},
     Environment : {NilEnvironment}]

NextStats ==
    \/ \E site \in StatsCreateInputs : Create(site)
           /\ UNCHANGED outsideRegistry
    \/ \E id \in SiteIDs : Suspend(id) /\ UNCHANGED outsideRegistry
    \/ \E id \in SiteIDs : Unsuspend(id) /\ UNCHANGED outsideRegistry
    \/ \E id \in SiteIDs : Delete(id) /\ UNCHANGED outsideRegistry

SpecStats == InitRuntime /\ [][NextStats]_vars

\* SpecReads: callers read sites with Get, GetByDomain, List and GetAll and
\* keep what they got while sites are created, patched, suspended,
\* reactivated and deleted.
ReadCreateInputs ==
    [ID : {""}, Domain : FewHostnames, Aliases : {<<>>},
     PHPVersion : TableVersions, Status : {""}, UserID : {"1001"},
     Name : {""}, PublicPath : {""}, WorkerMode : {FALSE},
     WorkerFile : {""}, WorkerNum : {0}, Environment : {NilEnvironment}]

ReadUpdateInputs == {[NoUpdates EXCEPT !.Name = "Blog"]}

\* what a call of the registry leaves alone when callers hold references
outsideReads == <<host, cgroups, quotas, removals, lret, unixUsers, resp,
                  mu, pc, writing, doc>>

NextReads ==
    \/ \E site \in ReadCreateInputs : Create(site) /\ Followed
           /\ UNCHANGED outsideReads
    \/ \E id \in SiteIDs, updates \in ReadUpdateInputs :
           Update(id, updates) /\ Followed /\ UNCHANGED outsideReads
    \/ \E id \in SiteIDs : Suspend(id) /\ Followed /\ UNCHANGED outsideReads
    \/ \E id \in SiteIDs : Unsuspend(id) /\ Followed
           /\ UNCHANGED outsideReads
    \/ \E id \in SiteIDs : Delete(id) /\ Followed /\ UNCHANGED outsideReads
    \/ \E id \in SiteIDs : ReadGet(id) /\ UNCHANGED outsideReads
    \/ \E domain \in FewHostnames : ReadGetByDomain(domain)
           /\ UNCHANGED outsideReads
    \/ \E userID \in {"", "1001"} : ReadList(userID)
           /\ UNCHANGED outsideReads
    \/ ReadGetAll /\ UNCHANGED outsideReads

SpecReads == Init /\ [][NextReads]_vars

\* SpecQuota: an owner's limit is set on the empty registry, and then the
\* goroutines create sites for the owner, under the uid and under the
\* account name, patch them and delete them, call after call.
QuotaLimitInputs == [Username : Usernames, MaxSites : {MaxSitesLimit}]

QuotaSites ==
    [ID : {""}, Domain : FewHostnames, Aliases : {<<>>},
     PHPVersion : TableVersions, Status : {""}, UserID : {"1001", "alice"},
     Name : {""}, PublicPath : {""}, WorkerMode : {FALSE},
     WorkerFile : {""}, WorkerNum : {0}, Environment : {NilEnvironment}]

QuotaCalls ==
    [op : {"Create"}, id : {""}, site : QuotaSites, updates : {NoUpdates}]
    \cup [op : {"Update"}, id : {"s1"}, site : {NoSite},
          updates : CallerUpdates]
    \cup [op : {"Delete"}, id : SiteIDs, site : {NoSite},
          updates : {NoUpdates}]

\* no call of the registry has been made
Untouched ==
    /\ sites = EmptyMap
    /\ userLimits = EmptyMap
    /\ \A c \in Callers : pc[c].at = "idle"

\* the goroutines that call the registry at the same time
QuotaCallers == {"g1", "g2"}

NextQuota ==
    \/ \E limit \in QuotaLimitInputs : Untouched /\ SetUserLimit(limit)
           /\ UNCHANGED outsideRegistry
    \/ \E c \in QuotaCallers, call \in QuotaCalls : Invoke(c, call)
           /\ UNCHANGED outsideCallers
    \/ \E c \in QuotaCallers : Lock(c) /\ UNCHANGED outsideCallers
    \/ \E c \in QuotaCallers : CallerCreateCheck(c) /\ UNCHANGED outsideCallers
    \/ \E c \in QuotaCallers : CallerCreateInsert(c) /\ UNCHANGED outsideCallers
    \/ \E c \in QuotaCallers : CallerUpdate(c) /\ UNCHANGED outsideCallers
    \/ \E c \in QuotaCallers : CallerDelete(c) /\ UNCHANGED outsideCallers
    \/ \E c \in QuotaCallers : WriteFileReturns(c) /\ UNCHANGED outsideCallers
    \/ \E c \in QuotaCallers : Unlock(c) /\ UNCHANGED outsideCallers
    \/ \E c \in QuotaCallers : Again(c) /\ UNCHANGED outsideCallers

SpecQuota == Init /\ [][NextQuota]_vars

\* SpecFair: three goroutines call the methods of the registry, two of
\* them again and again.  A goroutine that is inside a method goes on
\* running, and the mutex is fair: a call of Lock or RLock that could
\* return again and again does return.
FairSites ==
    [ID : {""}, Domain : {"a.test"}, Aliases : {<<>>},
     PHPVersion : TableVersions, Status : {""}, UserID : {"1001"},
     Name : {""}, PublicPath : {""}, WorkerMode : {FALSE},
     WorkerFile : {""}, WorkerNum : {0}, Environment : {NilEnvironment}]

\* the calls a goroutine makes: g1 one call of any method, g2 calls that
\* read and g3 calls that write and calls that read, again and again
FairCalls(c) ==
    IF c = "g1"
    THEN [op : {"Create"}, id : {""}, site : FairSites,
          updates : {NoUpdates}]
         \cup [op : {"Update", "Delete", "Suspend", "Unsuspend", "Get"},
               id : {"s1"}, site : {NoSite}, updates : {NoUpdates}]
         \cup [op : {"Load", "Save", "SetUserLimit", "List", "GetAll"},
               id : {""}, site : {NoSite}, updates : {NoUpdates}]
         \cup [op : {"GetByDomain"}, id : {"a.test"}, site : {NoSite},
               updates : {NoUpdates}]
         \cup [op : {"GetUserLimit"}, id : {"alice"}, site : {NoSite},
               updates : {NoUpdates}]
    ELSE IF c = "g2"
    THEN [op : {"Get"}, id : {"s1"}, site : {NoSite}, updates : {NoUpdates}]
         \cup [op : {"Save", "List"}, id : {""}, site : {NoSite},
               updates : {NoUpdates}]
         \cup [op : {"GetByDomain"}, id : {"a.test"}, site : {NoSite},
               updates : {NoUpdates}]
    ELSE [op : {"Suspend", "Unsuspend"}, id : {"s1"}, site : {NoSite},
          updates : {NoUpdates}]
         \cup [op : {"GetAll"}, id : {""}, site : {NoSite},
               updates : {NoUpdates}]
         \cup [op : {"GetUserLimit"}, id : {"alice"}, site : {NoSite},
               updates : {NoUpdates}]

\* the goroutines that call again when a call has returned
Recurring == {"g2", "g3"}

\* the statements of a method between its lock and its return
Runs(c) ==
    /\ \/ CallerCreateCheck(c)
       \/ CallerCreateInsert(c)
       \/ CallerUpdate(c)
       \/ CallerDelete(c)
       \/ CallerSuspend(c)
       \/ CallerUnsuspend(c)
       \/ CallerSave(c)
       \/ CallerLoad(c)
       \/ CallerSetUserLimit(c)
       \/ CallerRead(c)
       \/ WriteFileReturns(c)
       \/ Unlock(c)
       \/ RUnlock(c)
    /\ UNCHANGED outsideCallers

\* the call of m.mu.Lock() or m.mu.RLock() returns
Acquires(c) ==
    /\ Lock(c) \/ RLockBehindWriters(c)
    /\ UNCHANGED outsideCallers

NextFair ==
    \/ \E c \in Callers : \E call \in FairCalls(c) : Enter(c, call)
           /\ UNCHANGED outsideCallers
    \/ \E c \in Callers : Lock(c) /\ UNCHANGED outsideCallers
    \/ \E c \in Callers : RLockBehindWriters(c) /\ UNCHANGED outsideCallers
    \/ \E c \in Callers : CallerCreateCheck(c) /\ UNCHANGED outsideCallers
    \/ \E c \in Callers : CallerCreateInsert(c) /\ UNCHANGED outsideCallers
    \/ \E c \in Callers : CallerUpdate(c) /\ UNCHANGED outsideCallers
    \/ \E c \in Callers : CallerDelete(c) /\ UNCHANGED outsideCallers
    \/ \E c \in Callers : CallerSuspend(c) /\ UNCHANGED outsideCallers
    \/ \E c \in Callers : CallerUnsuspend(c) /\ UNCHANGED outsideCallers
    \/ \E c \in Callers : CallerSave(c) /\ UNCHANGED outsideCallers
    \/ \E c \in Callers : CallerLoad(c) /\ UNCHANGED outsideCallers
    \/ \E c \in Callers : CallerSetUserLimit(c) /\ UNCHANGED outsideCallers
    \/ \E c \in Callers : CallerRead(c) /\ UNCHANGED outsideCallers
    \/ \E c \in Callers : WriteFileReturns(c) /\ UNCHANGED outsideCallers
    \/ \E c \in Callers : Unlock(c) /\ UNCHANGED outsideCallers
    \/ \E c \in Callers : RUnlock(c) /\ UNCHANGED outsideCallers
    \/ \E c \in Recurring : Again(c) /\ UNCHANGED outsideCallers

SpecFair ==
    /\ Init
    /\ [][NextFair]_vars
    /\ \A c \in Callers :
           WF_vars(Runs(c)) /\ SF_vars(Acquires(c))

\* ================================================================ claims
\* the hostnames a site record holds
HostsOf(site) == {site.Domain} \cup Range(site.Aliases)

\* the two errors with which Create and Update refuse a hostname collision:
\* the sentinel ErrDomainExists and the fmt.Errorf value for an alias
IsConflict(err) == err \in {"ErrDomainExists", "ErrAliasExists"}

\* some stored site holds one of the hostnames of the site record
ClaimedByStored(site) ==
    \E id \in DOMAIN sites : HostsOf(site) \cap HostsOf(sites[id]) # {}

\* the version names an instance of the table that is enabled
EnabledInstance(version) ==
    version \in DOMAIN PHPVersions /\ PHPVersions[version]

\* one of the hostnames of the site record is in the domain index
InIndex(site) == HostsOf(site) \cap DOMAIN domains # {}

\* the owner is exempt from the site limit
Exempt(userID) == userID \in {"", "admin"}

\* MaxSites of the owner's limits record, 0 when there is no record
LimitOf(userID) ==
    LET username == getUsernameFromID(userID)
    IN  IF username \in DOMAIN userLimits
        THEN userLimits[username].MaxSites ELSE 0

\* the number of stored sites of the owner
OwnedBy(userID) ==
    Cardinality({id \in DOMAIN sites : sites[id].UserID = userID})

\* the owner has a limit n > 0 and already owns n or more sites
OverQuota(site) ==
    /\ ~Exempt(site.UserID)
    /\ LimitOf(site.UserID) > 0
    /\ OwnedBy(site.UserID) >= LimitOf(site.UserID)

\* C1: in every reachable state no hostname is the Domain or an alias of
\* two different stored sites.
C1_HostnamesOfSitesDisjoint ==
    \A i \in DOMAIN sites : \A j \in DOMAIN sites :
        i # j => HostsOf(sites[i]) \cap HostsOf(sites[j]) = {}

\* C2: a Create whose Domain or alias is held by a stored site fails with a
\* collision error and leaves the site set and the domain index as they were.
C2_CreateOfClaimedHostnameRefused ==
    [][\A site \in CreateInputs :
           (ret'.op = "Create" /\ ClaimedByStored(site) /\ Create(site))
           => /\ IsConflict(ret'.err)
              /\ sites' = sites
              /\ domains' = domains]_vars

\* the index maps one of the hostnames the patch newly names to another site
PatchCollides(id, updates) ==
    \/ /\ updates.Domain # "" /\ updates.Domain # sites[id].Domain
       /\ updates.Domain \in DOMAIN domains
       /\ domains[updates.Domain] # id
    \/ /\ updates.Aliases # NilAliases
       /\ \E i \in DOMAIN updates.Aliases :
              /\ updates.Aliases[i] \in DOMAIN domains
              /\ domains[updates.Aliases[i]] # id

\* C3: an Update whose new Domain or alias is held by a different site fails
\* with a collision error and leaves the site's Domain and Aliases and the
\* whole domain index as they were (stated for the patches that leave the
\* runtime version alone, so that no other check can answer first).
C3_UpdateCollisionLeavesState ==
    [][\A id \in SiteIDs : \A updates \in UpdateInputs :
           (/\ ret'.op = "Update"
            /\ id \in DOMAIN sites
            /\ updates.PHPVersion = ""
            /\ PatchCollides(id, updates)
            /\ Update(id, updates))
           => /\ IsConflict(ret'.err)
              /\ sites'[id].Domain = sites[id].Domain
              /\ sites'[id].Aliases = sites[id].Aliases
              /\ domains' = domains]_vars

\* C4: an Update carrying a new, unclaimed Domain and a RuntimeVersion that
\* is no enabled instance fails with ErrInvalidPHPVersion and leaves the
\* site's Domain and the domain index as they were.
C4_UpdateInvalidVersionLeavesDomain ==
    [][\A id \in SiteIDs : \A updates \in UpdateInputs :
           (/\ ret'.op = "Update"
            /\ id \in DOMAIN sites
            /\ updates.Domain # "" /\ updates.Domain # sites[id].Domain
            /\ updates.Domain \notin DOMAIN domains
            /\ ~ClaimedByStored([Domain |-> updates.Domain, Aliases |-> <<>>])
            /\ updates.PHPVersion # ""
            /\ ~EnabledInstance(updates.PHPVersion)
            /\ Update(id, updates))
           => /\ ret'.err = "ErrInvalidPHPVersion"
              /\ sites'[id].Domain = sites[id].Domain
              /\ domains' = domains]_vars

\* C5, as stated: a Create whose RuntimeVersion is absent from the table or
\* disabled fails with ErrInvalidPHPVersion, and afterwards there is no
\* entry, no index mapping and no directory for the site.
C5_CreateInvalidVersionIsValidationError ==
    [][\A site \in OwnerCreateInputs :
           (/\ ret'.op = "Create"
            /\ ~EnabledInstance(site.PHPVersion)
            /\ Create(site))
           => /\ ret'.err = "ErrInvalidPHPVersion"
              /\ sites' = sites
              /\ domains' = domains
              /\ ~ret'.mkdirs]_vars

\* C5, amended: a Create whose RuntimeVersion is absent from the table or
\* disabled fails and leaves no entry, no index mapping and no directory;
\* the error is ErrInvalidPHPVersion exactly when none of the site's
\* hostnames is in the domain index and the owner's limit is not reached,
\* because Create checks those two first and answers with their error.
C5_CreateInvalidVersionRefused ==
    [][\A site \in OwnerCreateInputs :
           (/\ ret'.op = "Create"
            /\ ~EnabledInstance(site.PHPVersion)
            /\ Create(site))
           => /\ ret'.err = ( IF InIndex(site)
                              THEN IF site.Domain \in DOMAIN domains
                                   THEN "ErrDomainExists"
                                   ELSE "ErrAliasExists"
                              ELSE IF OverQuota(site)
                                   THEN "ErrSiteLimitReached"
                                   ELSE "ErrInvalidPHPVersion" )
              /\ sites' = sites
              /\ domains' = domains
              /\ ~ret'.mkdirs]_vars

\* C5's case: a Create was refused for a disabled instance while the
\* registry held a site
C5_Witness ==
    /\ ret.op = "Create" /\ ret.err = "ErrInvalidPHPVersion"
    /\ ~ret.mkdirs
    /\ DOMAIN sites # {}
    /\ \E v \in DOMAIN PHPVersions : ~PHPVersions[v]

\* C6, as stated: a Create by a non-exempt owner who has MaxSites n > 0 and
\* owns n or more sites fails with ErrSiteLimitReached and adds nothing; a
\* Create by an exempt owner, or one with MaxSites 0 or no limits record,
\* is never refused for the limit.
C6_CreateOverQuotaIsQuotaExceeded ==
    [][\A site \in OwnerCreateInputs :
           (ret'.op = "Create" /\ Create(site))
           => /\ OverQuota(site)
                 => /\ ret'.err = "ErrSiteLimitReached"
                    /\ sites' = sites
                    /\ domains' = domains
              /\ ~OverQuota(site) => ret'.err # "ErrSiteLimitReached"]_vars

\* C6, amended: such a Create fails and adds nothing, with
\* ErrSiteLimitReached unless one of the site's hostnames is in the domain
\* index, which Create checks first and answers with the collision error; a
\* Create by an exempt owner, or one with MaxSites 0 or no limits record,
\* is never refused for the limit.
C6_CreateOverQuotaRefused ==
    [][\A site \in OwnerCreateInputs :
           (ret'.op = "Create" /\ Create(site))
           => /\ OverQuota(site)
                 => /\ ret'.err = ( IF InIndex(site)
                                    THEN IF site.Domain \in DOMAIN domains
                                         THEN "ErrDomainExists"
                                         ELSE "ErrAliasExists"
                                    ELSE "ErrSiteLimitReached" )
                    /\ sites' = sites
                    /\ domains' = domains
              /\ ~OverQuota(site) => ret'.err # "ErrSiteLimitReached"]_vars

\* C6's case: a Create was refused for the limit of an owner who holds as
\* many sites as the limits record allows
C6_Witness ==
    /\ ret.op = "Create" /\ ret.err = "ErrSiteLimitReached"
    /\ \E userID \in UserIDs :
           /\ LimitOf(userID) > 0
           /\ OwnedBy(userID) = LimitOf(userID)

\* C7: when the rewrite of sites.json fails during Create, Update, Delete,
\* Suspend or Unsuspend, the operation returns the error and the site set
\* and the domain index are the same as before the call.
C7_FailedRewriteLeavesMemory ==
    [][(/\ ret'.op \in {"Create", "Update", "Delete", "Suspend", "Unsuspend"}
        /\ ret'.err = "ErrIO")
       => (sites' = sites /\ domains' = domains)]_vars

\* C8: after a successful Save, a Load of the written sites.json into a
\* freshly constructed registry gives the same site set and the same domain
\* index as the registry that saved.
C8_SaveLoadRoundTrip ==
    (ret.op = "Save" /\ ret.err = "nil")
    => \A arr \in Orders(sitesFile.data) :
           LET st == LoadSitesFile(EmptyMap, EmptyMap, sitesFile, arr, TRUE)
           IN  /\ st.err = "nil"
               /\ st.sites = sites
               /\ st.domains = domains

\* C9: a Load that finds no sites.json returns nil and leaves the site set
\* and the domain index as they were, so a freshly constructed registry
\* stays empty; a Load that finds no user_limits.json leaves the limits as
\* they were and returns whatever the sites.json part returned.
C9_LoadWithoutSnapshot ==
    [][(ret'.op = "Load" /\ Load)
       => /\ sitesFile.state = "missing"
             => /\ ret'.err = "nil"
                /\ sites' = sites
                /\ domains' = domains
          /\ limitsFile.state = "missing"
             => /\ userLimits' = userLimits
                /\ sitesFile.state = "ok" => ret'.err = "nil"]_vars

\* C9's case: a fresh registry has loaded with neither snapshot on disk
C9_Witness ==
    /\ ret.op = "Load" /\ ret.err = "nil"
    /\ sitesFile.state = "missing" /\ limitsFile.state = "missing"
    /\ DOMAIN sites = {} /\ DOMAIN domains = {}

\* C10: after a successful Load of an existing sites.json, every site in
\* memory is a record of the snapshot and every hostname of the index is
\* the Domain or an alias of a record of the snapshot.
C10_LoadReplacesMemory ==
    [][(/\ ret'.op = "Load" /\ ret'.err = "nil"
        /\ sitesFile.state = "ok"
        /\ Load)
       => /\ \A id \in DOMAIN sites' : sites'[id] \in sitesFile.data
          /\ \A h \in DOMAIN domains' :
                 \E r \in sitesFile.data : h \in HostsOf(r)]_vars

\* C11: a successful Create of a site given without ID stores it under a
\* non-empty ID assigned to it, with Status "active" and PublicPath
\* "public" where the caller gave none; Get of that ID returns it,
\* GetByDomain returns it for its Domain and for each alias, and sites.json
\* has been rewritten and holds it.
C11_CreateStoresAndIndexes ==
    [][\A site \in FieldCreateInputs :
           (/\ ret'.op = "Create" /\ ret'.err = "nil"
            /\ Create(site))
           => \E id \in DOMAIN sites' :
                  LET new == [site EXCEPT
                                  !.ID = id,
                                  !.Status = IF site.Status = ""
                                             THEN "active" ELSE site.Status,
                                  !.PublicPath = IF site.PublicPath = ""
                                                 THEN "public"
                                                 ELSE site.PublicPath]
                  IN  /\ id # ""
                      /\ Get(sites', id) = [err |-> "nil", site |-> new]
                      /\ \A h \in HostsOf(site) :
                             GetByDomain(sites', domains', h)
                                 = [err |-> "nil", site |-> new]
                      /\ sitesFile'.state = "ok"
                      /\ new \in sitesFile'.data]_vars

\* C11's case: a Create has just stored a site with an alias, given without
\* Status and PublicPath
C11_Witness ==
    /\ ret.op = "Create" /\ ret.err = "nil"
    /\ \E id \in DOMAIN sites :
           /\ sites[id].Aliases # <<>>
           /\ sites[id].Aliases[1] # sites[id].Domain
           /\ sites[id].Status = "active"
           /\ sites[id].PublicPath = "public"
           /\ sites[id] \in sitesFile.data

\* a Create naming hostname h, as Domain or as alias, passes the collision
\* check against index d
Claimable(d, h) ==
    /\ CreateConflict(d, [Domain |-> h, Aliases |-> <<>>]) = "nil"
    /\ \A other \in Hostnames \ {h} :
           other \notin DOMAIN d
           => CreateConflict(d, [Domain |-> other, Aliases |-> <<h>>]) = "nil"

\* C12: Delete of a stored site removes its entry and the index entries of
\* its Domain and aliases: afterwards Get of the id and GetByDomain of each
\* of those hostnames return ErrSiteNotFound and a Create naming such a
\* hostname passes the collision check; Delete of an unknown id returns
\* ErrSiteNotFound and changes neither the maps nor sites.json.
C12_DeleteRemovesEntryAndIndex ==
    [][\A id \in SiteIDs :
           (ret'.op = "Delete" /\ Delete(id))
           => IF id \in DOMAIN sites
              THEN /\ Get(sites', id).err = "ErrSiteNotFound"
                   /\ \A h \in HostsOf(sites[id]) :
                          /\ GetByDomain(sites', domains', h).err
                                 = "ErrSiteNotFound"
                          /\ Claimable(domains', h)
              ELSE /\ ret'.err = "ErrSiteNotFound"
                   /\ sites' = sites
                   /\ domains' = domains
                   /\ sitesFile' = sitesFile]_vars

\* C12's case: a Delete has just removed one of two stored sites
C12_Witness ==
    /\ ret.op = "Delete" /\ ret.err = "nil"
    /\ Cardinality(DOMAIN sites) = 1
    /\ sitesFile.data = MapValues(sites)

\* C13: Suspend and Unsuspend of a stored site set its Status, to
\* "suspended" and to "active", and change nothing else: every other field
\* of the site, every other site and the domain index stay as they were;
\* for an unknown id they return ErrSiteNotFound and change nothing.
C13_SuspendChangesStatusOnly ==
    [][\A id \in SiteIDs :
           (/\ ret'.op \in {"Suspend", "Unsuspend"}
            /\ (Suspend(id) \/ Unsuspend(id)))
           => IF id \in DOMAIN sites
              THEN /\ domains' = domains
                   /\ DOMAIN sites' = DOMAIN sites
                   /\ \A other \in DOMAIN sites \ {id} :
                          sites'[other] = sites[other]
                   /\ sites'[id].Status = ( IF ret'.op = "Suspend"
                                            THEN "suspended" ELSE "active" )
                   /\ sites'[id] = [sites[id] EXCEPT
                                        !.Status = sites'[id].Status]
              ELSE /\ ret'.err = "ErrSiteNotFound"
                   /\ sites' = sites
                   /\ domains' = domains
                   /\ sitesFile' = sitesFile]_vars

\* C13's case: a site with worker settings, aliases and a neighbour has
\* just been suspended
C13_Witness ==
    /\ ret.op = "Suspend" /\ ret.err = "nil"
    /\ Cardinality(DOMAIN sites) = 2
    /\ \E id \in DOMAIN sites :
           /\ sites[id].Status = "suspended"
           /\ sites[id].WorkerMode
           /\ sites[id].Aliases # <<>>
           /\ \E other \in DOMAIN sites : sites[other].Status = "active"

\* the count CountByPHPVersion reports for version v, 0 when it has no key v
VersionCount(s, v) ==
    IF v \in DOMAIN CountByPHPVersion(s) THEN CountByPHPVersion(s)[v] ELSE 0

C15_EmptyPatchFieldsAreSkipped ==
    [][\A id \in SiteIDs : \A updates \in FieldUpdateInputs :
           (/\ ret'.op = "Update"
            /\ id \in DOMAIN sites
            /\ Update(id, updates))
           => /\ updates.Name = "" => sites'[id].Name = sites[id].Name
              /\ updates.Domain = "" => sites'[id].Domain = sites[id].Domain
              /\ updates.PHPVersion = ""
                 => sites'[id].PHPVersion = sites[id].PHPVersion
              /\ updates.PublicPath = ""
                 => sites'[id].PublicPath = sites[id].PublicPath
              /\ updates.WorkerFile = ""
                 => sites'[id].WorkerFile = sites[id].WorkerFile
              /\ updates.Aliases = NilAliases
                 => sites'[id].Aliases = sites[id].Aliases
              /\ updates.Environment = NilEnvironment
                 => sites'[id].Environment = sites[id].Environment]_vars

\* C15's case: a site holding a value in each of these fields has been
\* patched with all of them empty, which switched its worker mode off
C15_Witness ==
    /\ ret.op = "Update" /\ ret.err = "nil"
    /\ \E id \in DOMAIN sites :
           /\ sites[id].Name = "Blog"
           /\ sites[id].PublicPath = "web"
           /\ sites[id].WorkerFile = "worker.php"
           /\ sites[id].Environment # NilEnvironment
           /\ sites[id].Aliases # <<>>
           /\ ~sites[id].WorkerMode

\* C16: after a successful Update the site's Status and WorkerMode are the
\* patch's Status and WorkerMode, also when the patch's Status is empty or
\* its WorkerMode is false.
C16_StatusAndWorkerModeReplaced ==
    [][\A id \in SiteIDs : \A updates \in FieldUpdateInputs :
           (/\ ret'.op = "Update" /\ ret'.err = "nil"
            /\ id \in DOMAIN sites
            /\ Update(id, updates))
           => /\ sites'[id].Status = updates.Status
              /\ sites'[id].WorkerMode = updates.WorkerMode]_vars

\* the patch changes the Domain or replaces the Aliases of the stored site
PatchRenames(id, updates) ==
    \/ updates.Domain # "" /\ updates.Domain # sites[id].Domain
    \/ updates.Aliases # NilAliases

\* the hostnames the patch names
PatchHosts(updates) ==
    (IF updates.Domain # "" THEN {updates.Domain} ELSE {})
    \cup (IF updates.Aliases # NilAliases THEN Range(updates.Aliases) ELSE {})

\* C17: a successful Update that changes the Domain or replaces the
\* Aliases leaves no hostname the site gave up in the index and maps every
\* hostname the site now holds to its ID; and an Update whose patch names
\* only hostnames that the site itself holds or that nobody holds is not
\* refused for a collision.
C17_UpdateReindexes ==
    [][\A id \in SiteIDs : \A updates \in UpdateInputs :
           (/\ ret'.op = "Update"
            /\ id \in DOMAIN sites
            /\ PatchRenames(id, updates)
            /\ Update(id, updates))
           => /\ ret'.err = "nil"
                 => /\ \A h \in HostsOf(sites[id]) \ HostsOf(sites'[id]) :
                           h \notin DOMAIN domains'
                    /\ \A h \in HostsOf(sites'[id]) :
                           h \in DOMAIN domains' /\ domains'[h] = id
              /\ (\A h \in PatchHosts(updates) :
                      /\ h \in DOMAIN domains => domains[h] = id
                      /\ \A other \in DOMAIN sites \ {id} :
                             h \notin HostsOf(sites[other]))
                 => ~IsConflict(ret'.err)]_vars

\* C18: a Create and an Update that changes the PHPVersion succeed only
\* when the version is an enabled instance at that moment; an Update naming
\* another version that is missing or disabled returns ErrInvalidPHPVersion
\* and leaves the PHPVersion as it was; and an Update that does not change
\* the PHPVersion, its patch leaving the version empty or naming the site's
\* current one, is not refused with ErrInvalidPHPVersion.
C18_VersionCheckedOnlyWhenChanged ==
    [][/\ \A site \in RuntimeCreateInputs :
              (ret'.op = "Create" /\ ret'.err = "nil" /\ Create(site))
              => EnabledInstance(site.PHPVersion)
       /\ \A id \in SiteIDs : \A updates \in RuntimeUpdateInputs :
              (/\ ret'.op = "Update"
               /\ id \in DOMAIN sites
               /\ Update(id, updates))
              => IF updates.PHPVersion \in {"", sites[id].PHPVersion}
                 THEN ret'.err # "ErrInvalidPHPVersion"
                 ELSE IF EnabledInstance(updates.PHPVersion)
                      THEN ret'.err = "nil"
                           => sites'[id].PHPVersion = updates.PHPVersion
                      ELSE /\ ret'.err = "ErrInvalidPHPVersion"
                           /\ sites'[id].PHPVersion = sites[id].PHPVersion
      ]_vars

\* C19: after SetUserLimit(L), GetUserLimit of L's owner returns L and the
\* records of the other owners are as before; no other call changes what
\* GetUserLimit returns, so L stays until the next SetUserLimit for that
\* owner; and for an owner with no record GetUserLimit returns a record
\* with MaxSites 0.
C19_SetUserLimitIsUpsert ==
    [][/\ \A limit \in OwnerLimitInputs :
              (ret'.op = "SetUserLimit" /\ SetUserLimit(limit))
              => /\ GetUserLimit(userLimits', limit.Username) = limit
                 /\ \A u \in LimitUsernames \ {limit.Username} :
                        /\ u \in DOMAIN userLimits' <=> u \in DOMAIN userLimits
                        /\ GetUserLimit(userLimits', u)
                               = GetUserLimit(userLimits, u)
       /\ ret'.op # "SetUserLimit"
          => \A u \in LimitUsernames :
                 /\ u \in DOMAIN userLimits' <=> u \in DOMAIN userLimits
                 /\ GetUserLimit(userLimits', u) = GetUserLimit(userLimits, u)
       /\ \A u \in LimitUsernames \ DOMAIN userLimits' :
              GetUserLimit(userLimits', u).MaxSites = 0]_vars

\* C19's case: one owner's limit has been set, the other owner has no record
C19_Witness ==
    /\ ret.op = "SetUserLimit"
    /\ \E u \in LimitUsernames :
           /\ u \in DOMAIN userLimits /\ userLimits[u].MaxSites > 0
           /\ GetUserLimit(userLimits, u) \in OwnerLimitInputs
           /\ \E other \in LimitUsernames \ DOMAIN userLimits :
                  GetUserLimit(userLimits, other).MaxSites = 0

\* C20: SetUserLimit leaves the site map, the domain index and sites.json
\* as they were and writes user_limits.json only; Create, Update, Delete,
\* Suspend and Unsuspend leave the limits map and user_limits.json as they
\* were.
C20_SitesAndLimitsPersistApart ==
    [][/\ ret'.op = "SetUserLimit"
          => /\ sites' = sites
             /\ domains' = domains
             /\ sitesFile' = sitesFile
             /\ ret'.err = "nil" => limitsFile' = JSONFile(MapValues(userLimits'))
       /\ ret'.op \in {"Create", "Update", "Delete", "Suspend", "Unsuspend"}
          => /\ userLimits' = userLimits
             /\ limitsFile' = limitsFile]_vars

\* C20's case: a limit has been written while the registry held a site
\* that sites.json lacks, and user_limits.json holds the limits
C20_Witness ==
    /\ ret.op = "SetUserLimit" /\ ret.err = "nil"
    /\ DOMAIN sites # {}
    /\ sitesFile # JSONFile(MapValues(sites))
    /\ limitsFile = JSONFile(MapValues(userLimits))

\* C30: in every reachable state every stored site has Status active or
\* suspended, whatever sequence of Create, Update, Suspend and Unsuspend
\* calls led there.
C30_StoredStatusIsActiveOrSuspended ==
    \A id \in DOMAIN sites : sites[id].Status \in {"active", "suspended"}

\* ------------------------------------------------- claims on the enforcer
\* the content of a control file of a tenant's group ("max" without group)
ControlOf(cg, u, file) == IF u \in DOMAIN cg THEN cg[u][file] ELSE NoCeiling

\* the disk quota recorded for a tenant, if any
QuotaSet(q, u) == IF u \in DOMAIN q THEN {q[u]} ELSE {}

\* the writes of file that a call issued
WritesTo(call, file) == {i \in DOMAIN call.wrote : call.wrote[i].file = file}

\* the limit of a dimension as the caller declared it
Declared(limits, file) ==
    CASE file = "memory" -> limits.MaxRAMMB
      [] file = "cpu" -> limits.MaxCPUPercent
      [] file = "pids" -> limits.MaxProcesses
      [] file = "quota" -> limits.MaxDiskMB

\* C23: ApplyLimits writes no control for a dimension whose limit is 0: no
\* memory ceiling for MaxRAMMB 0, no CPU quota for MaxCPUPercent 0, no
\* process ceiling for MaxProcesses 0, no disk quota for MaxDiskMB 0,
\* whatever the other dimensions are; what the tenant had before stays.
C23_ZeroLimitWritesNoControl ==
    [][lret'.op = "ApplyLimits" =>
        LET limits == lret'.arg
            u == limits.Username
        IN  /\ \A file \in {"memory", "cpu", "pids"} :
                   Declared(limits, file) = 0 =>
                       /\ WritesTo(lret', file) = {}
                       /\ ControlOf(cgroups', u, file)
                              = ControlOf(cgroups, u, file)
            /\ Declared(limits, "quota") = 0 =>
                   /\ WritesTo(lret', "quota") = {}
                   /\ QuotaSet(quotas', u) = QuotaSet(quotas, u)]_vars

\* ApplyLimits returned from a call with MaxRAMMB 0 and MaxDiskMB 0 that
\* wrote the CPU quota and the process ceiling of the tenant
C23_Witness ==
    /\ lret.op = "ApplyLimits"
    /\ lret.arg.MaxRAMMB = 0
    /\ lret.arg.MaxDiskMB = 0
    /\ lret.arg.MaxCPUPercent > 0
    /\ lret.arg.MaxProcesses > 0
    /\ WritesTo(lret, "cpu") # {}
    /\ WritesTo(lret, "pids") # {}
    /\ lret.failed = {}
    /\ ControlOf(cgroups, lret.arg.Username, "memory") = NoCeiling

\* the product p x 100000 lies within Go's int of the build: up to 21474
\* where int has 32 bits; where it has 64, up to 92233720368547, which
\* every percentage used here is
FitsInt(bits, p) == bits = 64 \/ p <= 2147483647 \div 100000

\* the CPU control pair the claim names for p: p x 100000 / 100 in the
\* integers, which is p x 1000, and the period
PairFor(p) == <<p * (100000 \div 100), 100000>>

SubControls == {"memory", "cpu", "pids", "quota"}

\* C25: every sub-control failure is captured in the result of ApplyLimits:
\* it returns an aggregate error when the write of at least one requested
\* sub-control (CPU quota, memory ceiling, process ceiling, disk quota)
\* failed, and success only when none of them failed.
C25_FailedSubControlIsReturned ==
    [][lret'.op = "ApplyLimits" =>
        (lret'.failed \cap SubControls # {} => lret'.err # "nil")]_vars

\* C26: ApplyLimits attempts each sub-control independently and never rolls
\* back: the failure of one of them (CPU, memory, process count, disk)
\* keeps none of the others from being attempted (the three cgroup
\* controls once the group's directory exists, the disk quota once the
\* user and the filesystem are found), and every sub-control written
\* stays in effect when the call returns.
C26_SubControlsIndependent ==
    [][(lret'.op = "ApplyLimits" /\ host.linux) =>
        LET limits == lret'.arg
            u == limits.Username
        IN  /\ \A file \in {"memory", "cpu", "pids"} :
                   (/\ Declared(limits, file) > 0
                    /\ host.cgroupV2
                    /\ "mkdir" \notin lret'.failed) =>
                       WritesTo(lret', file) # {}
            /\ (/\ Declared(limits, "quota") > 0
                 /\ host.setquota
                 /\ lret'.failed \cap {"lookup", "df"} = {}) =>
                    WritesTo(lret', "quota") # {}
            /\ \A i \in DOMAIN lret'.wrote :
                   LET w == lret'.wrote[i]
                   IN  w.file \notin lret'.failed =>
                          /\ w.file \in {"memory", "cpu", "pids"} =>
                                 ControlOf(cgroups', u, w.file) = w.data
                          /\ w.file = "quota" =>
                                 QuotaSet(quotas', u) = {w.data}]_vars

\* ApplyLimits returned from a call whose write of memory.max failed, with
\* the CPU quota, the process ceiling and the disk quota of the same call
\* written and in effect
C26_Witness ==
    /\ lret.op = "ApplyLimits"
    /\ lret.failed = {"memory"}
    /\ lret.err = "nil"
    /\ WritesTo(lret, "memory") # {}
    /\ ControlOf(cgroups, lret.arg.Username, "memory") = NoCeiling
    /\ ControlOf(cgroups, lret.arg.Username, "cpu") = <<50000, 100000>>
    /\ ControlOf(cgroups, lret.arg.Username, "pids") = <<100>>
    /\ QuotaSet(quotas, lret.arg.Username) # {}

\* the host lacks one of the primitives the limits are enforced with
LacksPrimitive(h) == ~h.linux \/ ~h.cgroupV2 \/ ~h.setquota

\* a step of ApplyLimits, RemoveLimits or GetUsage
EnforcerCalls ==
    {"ApplyLimits", "RemoveLimitsRead", "RemoveLimitsMove", "RemoveLimits",
     "GetUsage"}

\* C27 as stated: on a host that lacks a required isolation primitive (not
\* Linux, or no cgroup v2 hierarchy, or no quota tool) ApplyLimits,
\* RemoveLimits and GetUsage report success and neither create nor modify
\* nor delete any isolation group or quota.
C27_AnyMissingPrimitiveIsNoOp ==
    [][(LacksPrimitive(host) /\ lret'.op \in EnforcerCalls) =>
           /\ lret'.err = "nil"
           /\ UNCHANGED <<cgroups, quotas>>]_vars

\* C27: on a host that is not Linux ApplyLimits, RemoveLimits and GetUsage
\* report success and neither create nor modify nor delete any isolation
\* group or quota.  On Linux each primitive gates its own part: without a
\* cgroup v2 hierarchy no isolation group is created, modified or deleted,
\* without the quota tool no quota is set; GetUsage reports success and
\* changes nothing on every host.
C27_EachPrimitiveGatesItsPart ==
    [][lret'.op \in EnforcerCalls =>
           /\ ~host.linux =>
                  lret'.err = "nil" /\ UNCHANGED <<cgroups, quotas>>
           /\ ~host.cgroupV2 => UNCHANGED cgroups
           /\ ~host.setquota => UNCHANGED quotas
           /\ lret'.op = "GetUsage" =>
                  lret'.err = "nil" /\ UNCHANGED <<cgroups, quotas>>]_vars

\* on a Linux host without cgroup v2 ApplyLimits returned success from a
\* call that declared a memory limit, and there is no isolation group
C27_Witness ==
    /\ host.linux
    /\ ~host.cgroupV2
    /\ lret.op = "ApplyLimits"
    /\ lret.arg.MaxRAMMB > 0
    /\ lret.err = "nil"
    /\ cgroups = EmptyMap

\* RemoveLimits for the tenant takes its last step, os.RemoveAll of the
\* tenant's group
Deleting(u) == u \in DOMAIN removals /\ u \notin DOMAIN removals'

\* C28: RemoveLimits never deletes a tenant's isolation group while a
\* process is still attached to it: when it comes to delete the group
\* every member has been migrated to the parent scope, also when a
\* migration write failed and when AddProcessToCgroup for the tenant ran
\* in between.
C28_GroupEmptyWhenDeleted ==
    [][\A u \in Tenants :
          (Deleting(u) /\ u \in DOMAIN cgroups) =>
              cgroups[u].procs = {}]_vars

\* ------------------------------------------- claims on the user handlers
\* a handler has just recorded the limits of its request
Recorded == ~InFlight /\ resp'.handler # "" /\ resp'.status = 0

\* a handler passes from the recorded limits to its answer
Answering == InFlight /\ resp'.status # 0

\* C29: an Enforcer failure never blocks or undoes the Registry mutation: in
\* createUser and updateUser the declared limits are recorded by
\* SetUserLimit before ApplyLimits is called, and when ApplyLimits fails the
\* handler still completes and GetUserLimit returns the declared limits.
C29_EnforcerFailureKeepsLimits ==
    [][/\ Recorded =>
           /\ GetUserLimit(userLimits', resp'.username)
                  = LimitsOf(resp'.username, resp'.req)
           /\ lret' = lret
       /\ Answering =>
           LET declared == LimitsOf(resp.username, resp.req)
           IN  /\ GetUserLimit(userLimits, resp.username) = declared
               /\ lret'.op = "ApplyLimits"
               /\ lret'.arg = declared
               /\ resp'.status \in {200, 201}
               /\ GetUserLimit(userLimits', resp.username) = declared
               /\ resp'.body = declared]_vars

\* a handler answered 200 or 201 although ApplyLimits returned an error, and
\* GetUserLimit returns the limits of the request, a memory limit of 512 MB
C29_Witness ==
    /\ resp.status \in {200, 201}
    /\ lret.op = "ApplyLimits"
    /\ lret.err # "nil"
    /\ lret.arg.Username = resp.username
    /\ lret.arg.MaxRAMMB = 512
    /\ GetUserLimit(userLimits, resp.username) = lret.arg
    /\ resp.body = lret.arg

\* ------------------------------------------- claims on concurrent callers
\* C21: every rewrite of sites.json, whether Create, Update, Delete,
\* Suspend, Unsuspend or Save started it, runs while its caller holds the
\* exclusive lock of the registry, so no two rewrites are under way at once.
C21_RewriteHoldsExclusiveLock ==
    /\ \A c \in writing : mu.writer = c
    /\ Cardinality(writing) <= 1

\* nothing but Create has been called
OnlyCreates == \A c \in Callers : pc[c].call.op \in {"", "Create"}

\* the callers whose Create names the hostname, as Domain or as alias
Naming(h) ==
    {c \in Callers : pc[c].call.op = "Create"
                     /\ h \in HostsOf(pc[c].call.site)}

\* two of them were inside Create at the same time
Raced(h) == \E c \in Naming(h) : pc[c].during \cap Naming(h) # {}

\* the callers to which Create has returned the site
Won(h) == {c \in Naming(h) : pc[c].at = "done" /\ pc[c].err = "nil"}

\* the stored sites that have the hostname
SitesNaming(h) == {id \in DOMAIN sites : h \in HostsOf(sites[id])}

ActiveOf(list, version) ==
    {i \in DOMAIN list : list[i].PHPVersion = version
                         /\ list[i].Status = "active"}

\* the document has a server block on the port that answers every request
\* with the status, and no other response
AnswersOnlyWith(text, port, status) ==
    /\ \E i \in DOMAIN text :
           /\ text[i].kind = "listen" /\ text[i].num = port
           /\ i + 1 \in DOMAIN text
           /\ text[i + 1].kind = "respond" /\ text[i + 1].num = status
    /\ \A i \in DOMAIN text :
           /\ text[i].kind = "respond" => text[i].num = status
           /\ text[i].kind = "listen" => text[i].num = port

\* C31: GeneratePHPInstance for a version none of whose sites is active
\* (none stored, or all suspended or deleted) returns no error and a
\* document that is not empty: the placeholder that listens on the port of
\* the instance and answers 503.
C31_NoActiveSiteRendersPlaceholder ==
    (doc.op = "GeneratePHPInstance" /\ ActiveOf(doc.sites, doc.version) = {})
        => /\ doc.err = "nil"
           /\ doc.text # <<>>
           /\ AnswersOnlyWith(doc.text, doc.port, 503)

C31_Witness ==
    /\ doc.op = "GeneratePHPInstance"
    /\ doc.sites # <<>>
    /\ \A i \in DOMAIN doc.sites : doc.sites[i].Status = "suspended"
    /\ doc.version \in TableVersions
    /\ AnswersOnlyWith(doc.text, doc.port, 503)

\* --------------------------------------------- claims on the domain index
\* C32: index completeness: the Domain and every alias of every stored site
\* is a key of the domain index and maps to the ID of that site, so
\* GetByDomain of the hostname returns the site and a Create naming the
\* hostname is refused.
C32_IndexComplete ==
    \A id \in DOMAIN sites :
        \A h \in HostsOf(sites[id]) :
            /\ h \in DOMAIN domains
            /\ domains[h] = id
            /\ GetByDomain(sites, domains, h) =
                   [err |-> "nil", site |-> sites[id]]
            /\ IsConflict(CreateConflict(domains, [Domain |-> h,
                                                   Aliases |-> <<>>]))

\* C33: index soundness: every key of the domain index maps to the ID of a
\* stored site whose Domain or Aliases contain the key, so GetByDomain never
\* returns a nil site with a nil error.
C33_IndexSound ==
    /\ \A h \in DOMAIN domains :
           /\ domains[h] \in DOMAIN sites
           /\ h \in HostsOf(sites[domains[h]])
    /\ \A h \in Hostnames :
           GetByDomain(sites, domains, h).err = "nil"
               => GetByDomain(sites, domains, h).site # NilSite

\* C34: site IDs are unique and Create replaces no stored site: a Create
\* that returns the site leaves one stored site more than before, and Get
\* returns every site stored before under its ID as before, also when the
\* caller passed an ID that is in use.
C34_CreateAddsOneSite ==
    [][(ret'.op = "Create" /\ ret'.err = "nil")
           => /\ Cardinality(DOMAIN sites') = Cardinality(DOMAIN sites) + 1
              /\ \A id \in DOMAIN sites :
                     Get(sites', id) = Get(sites, id)]_vars

\* --------------------------------------------- claims on the delete flow
\* the stored sites getFastCPUser counts for the user: those of the uid
OwnedSites(username) ==
    {id \in DOMAIN sites : sites[id].UserID = Uid(username)}

\* C40: deleteUser never removes an account that owns a stored site, by the
\* count getFastCPUser reports for it: it answers 400 and the accounts stay;
\* likewise for the caller's own account and for root.
C40_DeleteUserKeepsOwners ==
    [][(resp'.handler = "deleteUser" /\ sites' = sites /\ ret' = ret)
           => LET u == resp'.username
              IN  (OwnedSites(u) # {} \/ u = resp'.by \/ u = "root")
                      => /\ resp'.status = 400
                         /\ unixUsers' = unixUsers]_vars

\* ----------------------------------------- claims on the aggregate helpers
\* the stored sites whose Status is "active"
StoredActive == {id \in DOMAIN sites : sites[id].Status = "active"}

\* the sum of the values of a map of counts
RECURSIVE SumOf(_)
SumOf(counts) ==
    IF DOMAIN counts = {} THEN 0
    ELSE LET v == CHOOSE x \in DOMAIN counts : TRUE
         IN  counts[v] + SumOf([x \in DOMAIN counts \ {v} |-> counts[x]])

\* C39: in every reachable state GetStats returns the number of stored sites
\* as total and the number of stored sites with Status "active" as active,
\* CountByPHPVersion counts for each version its active sites only, the sum
\* of its counts is the active of GetStats, and active is at most total.
C39_AggregatesAgree ==
    LET stats == GetStats(sites)
        counts == CountByPHPVersion(sites)
    IN  /\ stats.total = Cardinality(DOMAIN sites)
        /\ stats.active = Cardinality(StoredActive)
        /\ \A v \in DOMAIN counts :
               counts[v] = Cardinality({id \in StoredActive :
                                           sites[id].PHPVersion = v})
        /\ \A id \in StoredActive : sites[id].PHPVersion \in DOMAIN counts
        /\ SumOf(counts) = stats.active
        /\ stats.active <= stats.total

C39_Witness ==
    /\ GetStats(sites) = [total |-> 2, active |-> 1]
    /\ \E v \in RuntimeVersions : CountByPHPVersion(sites) = [x \in {v} |-> 1]
    /\ \E id \in DOMAIN sites : sites[id].Status = "suspended"

\* ------------------------------------------- claims on convergence
\* the content of a control file that enforces the declared limit: no
\* ceiling for 0
CeilingFor(limits, file) ==
    IF Declared(limits, file) = 0 THEN NoCeiling
    ELSE CASE file = "memory" -> <<limits.MaxRAMMB * 1024 * 1024>>
           [] file = "cpu" -> PairFor(limits.MaxCPUPercent)
           [] file = "pids" -> <<limits.MaxProcesses>>

\* C35: on a supported platform, after ApplyLimits(L) has returned nil with
\* none of its steps failing, the tenant's memory, CPU and process ceilings
\* are those of L, and none where L's value is 0, whatever earlier calls
\* wrote.
C35_AppliedLimitsAreEffective ==
    [][(/\ lret'.op = "ApplyLimits"
        /\ lret'.err = "nil"
        /\ lret'.failed = {}
        /\ host.linux /\ host.cgroupV2
        /\ FitsInt(host.intBits, lret'.arg.MaxCPUPercent)) =>
           \A file \in {"memory", "cpu", "pids"} :
               ControlOf(cgroups', lret'.arg.Username, file)
                   = CeilingFor(lret'.arg, file)]_vars

\* ------------------------------------------------------ claims on reads
\* C37: the site records a caller got from Get, GetByDomain, List or GetAll
\* are snapshots: no later Update, Suspend, Unsuspend or Delete changes
\* them.
C37_ReadsAreSnapshots == \A h \in held : h.now = h.seen

\* ------------------------------------------------- claims on the quota
\* the owners the registry holds a site limit for: the site.UserID values
\* that are not exempt and resolve to an account with MaxSites > 0
Limited ==
    {u \in {"1001", "alice"} :
        /\ getUsernameFromID(u) \in DOMAIN userLimits
        /\ userLimits[getUsernameFromID(u)].MaxSites > 0}

Returned(c) ==
    /\ pc[c].at = "done"
    /\ mu.writer # c
    /\ c \notin mu.readers

\* C38: under a fair lock every call of a method of the registry made by
\* one of any number of concurrent callers eventually returns, and has
\* released the lock when it returns, on error returns too.
C38_EveryCallReturns == \A c \in Callers : InCall(c) ~> Returned(c)

\* a writing call has returned an error and has let go of the lock: a
\* reader holds it now, and another call waits for it
C38_Witness ==
    \E c \in Callers :
        /\ Returned(c)
        /\ pc[c].err # "nil"
        /\ pc[c].call.op \in ExclusiveMethods
        /\ \E d \in Callers : d \in mu.readers
        /\ \E d \in Callers : pc[d].at = "lock"

====
